---- MODULE Spec2Model ----
(***************************************************************************)
(* A model of the card art engine (CardArt) and the share image renderer   *)
(* (CardImage) of "AI for Grandmas".                                       *)
(*                                                                         *)
(* Strings are sequences of UTF-16 code units.  A floating point value     *)
(* that the code obtains from rand() is represented by the generator state *)
(* it was computed from: rand() returns (s - 1) / 2147483646, which is an  *)
(* injective function of s, so two values are equal exactly when their     *)
(* states are.  Comparisons and floors of such values are computed exactly *)
(* on the state.  Integers of the model are limited to 32 bits, so every   *)
(* product that the code forms in a double is evaluated in 16-bit limbs or *)
(* by an exact decomposition; the value is the one the code computes.      *)
(***************************************************************************)
EXTENDS Integers, Sequences, FiniteSets, TLC

VARIABLES
  title,      \* CardArt.generate: argument title
  type,       \* CardArt.generate: argument type ('' when omitted)
  artPc,      \* CardArt.generate: position of the running call
  seed,       \* CardArt.generate: const seed
  palette,    \* CardArt.generate: const palette (<<>> stands for undefined)
  s,          \* seededRandom: the closure variable s of the call's stream
  useTwo,     \* CardArt.generate: const useTwo
  svg,        \* CardArt.generate: let svg, the markup built so far
  drawLog,    \* the values each consumer took from the stream, in order
  results,    \* what each (title, type) has returned so far, per caller
  deck,       \* the slides buildCardSlide was called for, and their art
  advance,    \* the ctx in use: the px its measureText gives a character
  card,       \* CardImage.generate: argument card
  imgPc,      \* CardImage.generate: position of the running call
  titleLines, \* CardImage.generate: const titleLines
  bodyLines,  \* CardImage.generate: const bodyLines
  visibleBodyLines, \* CardImage.generate: const visibleBodyLines
  bodyY,      \* CardImage.generate: const bodyY (-1 before it is set)
  contentY,   \* CardImage.generate: let contentY
  cardHeight, \* CardImage.generate: const cardHeight (-1 before it is set)
  painted,    \* the fillText calls of the body, in order
  ops,        \* every drawing call made on the canvas, in order
  colors,     \* CardImage.generate: const colors
  imgError,   \* CardImage.generate: the name of the error it threw, or ""
  text,       \* wrapText: argument text
  maxWidth,   \* wrapText: argument maxWidth
  wrapPc,     \* wrapText: position of the running call
  word,       \* wrapText: index of the next word of words.forEach
  lines,      \* wrapText: const lines
  currentLine, \* wrapText: let currentLine
  shares,     \* the invocations of shareCardImage and of CardImage.generate
  storage,    \* the item of local storage under STORAGE_KEY
  load,       \* loadCards: the running call, its locals and what it returned
  clock,      \* Date.now(), in ticks
  streakCall, \* updateStreak: the running call and its locals
  visits,     \* the days on which updateStreak was called
  sw,         \* the service worker: whether it controls the page, its
              \* cached response for the card data, its answer in flight
  boot        \* init(): its position, and whether the loading screen is hidden

artVars == <<title, type, artPc, seed, palette, s, useTwo, svg, drawLog, results,
             deck>>

imgVars == <<card, imgPc, titleLines, bodyLines, visibleBodyLines, bodyY,
             contentY, cardHeight, painted, colors, imgError, ops>>

wrapVars == <<text, maxWidth, wrapPc, word, lines, currentLine>>

appVars == <<storage, load, clock, streakCall, visits>>

vars == <<artVars, advance, imgVars, wrapVars, shares, appVars, sw, boot>>

\* What a call of CardArt.generate leaves alone
notArt == <<advance, imgVars, wrapVars, shares, appVars, sw, boot>>

----------------------------------------------------------------------------
(* 32-bit arithmetic *)

Limb == 2 ^ 16

HalfLimb == 2 ^ 15

Lo(h) == h % Limb

Hi(h) == (h \div Limb) % Limb

\* ToInt32 of the value hi * 2^16 + lo taken modulo 2^32 (JS "| 0", "<<")
ToInt32(hi, lo) ==
  LET l == lo % Limb
      u == (hi + (lo \div Limb)) % Limb
  IN  IF u >= HalfLimb THEN (u - Limb) * Limb + l ELSE u * Limb + l

\* a + b modulo n for 0 <= a, b < n, without leaving 32 bits
AddMod(a, b, n) == IF a >= n - b THEN a - (n - b) ELSE a + b

\* A JS number that is an integer of magnitude up to 2^31:
\* (neg ? -1 : 1) * (hi * 2^16 + lo)
NumOf(h) ==
  IF h >= 0
    THEN [neg |-> FALSE, hi |-> h \div Limb, lo |-> h % Limb]
    ELSE LET m == -(h + 1)
             l == (m % Limb) + 1
         IN  [neg |-> TRUE, hi |-> (m \div Limb) + (l \div Limb), lo |-> l % Limb]

\* Math.abs left out: the sign of h is kept
MathAbsOmitted(h) == NumOf(h)

\* Math.abs
MathAbs(h) == [NumOf(h) EXCEPT !.neg = FALSE]

\* The JS remainder num % n (the sign of the result is the sign of num)
JsRem(num, n) ==
  LET r == AddMod(AddMod((num.hi * (Limb - 1)) % n, num.hi % n, n), num.lo % n, n)
  IN  IF num.neg THEN -r ELSE r

\* num + k for a small k >= 0
NumPlus(num, k) ==
  IF ~num.neg
    THEN [neg |-> FALSE, hi |-> num.hi + ((num.lo + k) \div Limb),
          lo |-> (num.lo + k) % Limb]
    ELSE IF num.hi = 0 /\ num.lo <= k
      THEN [neg |-> FALSE, hi |-> 0, lo |-> k - num.lo]
      ELSE [neg |-> TRUE, hi |-> num.hi + ((num.lo - k) \div Limb),
            lo |-> (num.lo - k) % Limb]

----------------------------------------------------------------------------
(* CardArt: hash *)

\* h << 4 in the place of h << 5
ShiftLeft4(h) == ToInt32(Hi(h) * 16, Lo(h) * 16)

\* h << 5
ShiftLeft5(h) == ToInt32(Hi(h) * 32, Lo(h) * 32)

\* ((h << 5) - h + c) | 0
HashStep(h, c) ==
  LET a == ShiftLeft5(h)
  IN  ToInt32(Hi(a) - Hi(h), Lo(a) - Lo(h) + c)

\* for (i = 0; i < str.length; i++) h = ...; str[i] here is charCodeAt(i - 1).
\* The next h is bound as a value before the loop goes on.
RECURSIVE HashLoop(_, _, _)
HashLoop(str, i, h) ==
  IF i > Len(str) THEN h
  ELSE CHOOSE r \in {HashLoop(str, i + 1, nh) : nh \in {HashStep(h, str[i])}} : TRUE

Hash(str) == MathAbs(HashLoop(str, 1, 0))

----------------------------------------------------------------------------
(* CardArt: seededRandom *)

Multiplier == 16807

Modulus == 2147483647

RandDivisor == 2147483646

\* (x * 16807) % 2147483647 for 0 <= x < 2147483647, by Schrage's exact
\* decomposition 2147483647 = 16807 * 127773 + 2836
MulMod(x) ==
  LET q == Modulus \div Multiplier
      r == Modulus % Multiplier
      t == Multiplier * (x % q) - r * (x \div q)
  IN  IF t < 0 THEN t + Modulus ELSE t

\* s = (s * 16807 + 0) % 2147483647, with the sign rule of the JS remainder
LcgStep(x) == IF x < 0 THEN -MulMod(-x) ELSE MulMod(x)

\* One stream for the module: only the first call seeds it, a later call
\* goes on from where the last one stopped
SeededRandomShared(sd) == IF artPc = "idle" THEN JsRem(sd, Modulus) ELSE s

\* let s = seed.  The model keeps s reduced modulo 2147483647, which leaves
\* the first and every later step unchanged and fits 32 bits.
SeededRandom(sd) == JsRem(sd, Modulus)

\* Math.floor(v * k), v the value (d - 1) / 2147483646 that rand() returned
\* from state d, for a small integer k >= 1
FloorRand(d, k) ==
  LET x == d - 1
      q == RandDivisor \div k
      r == RandDivisor % k
  IN  IF x >= 0
        THEN Cardinality({n \in 1..(k - 1) : x >= n * q + ((n * r + k - 1) \div k)})
        ELSE -Cardinality({n \in 0..(k - 1) : -x >= n * q + ((n * r) \div k) + 1})

\* v > num / den, v the value rand() returned from state d (den divides
\* 2147483646 * num evenly or not: the comparison is made on integers)
RandGreater(d, num, den) ==
  LET q == RandDivisor \div den
      r == RandDivisor % den
  IN  (d - 1) > num * q + ((num * r) \div den)

Last(seq, dflt) == IF Len(seq) = 0 THEN dflt ELSE seq[Len(seq)]

\* The next n values of the stream that is in state x (n calls of rand()),
\* computed in halves to keep the evaluation shallow
RECURSIVE Draws(_, _)
Draws(x, n) ==
  IF n <= 0 THEN <<>>
  ELSE IF n = 1 THEN <<LcgStep(x)>>
  ELSE CHOOSE r \in {front \o Draws(Last(front, x), n - (n \div 2)) :
                       front \in {Draws(x, n \div 2)}} : TRUE

----------------------------------------------------------------------------
(* CardArt: palettes and pattern functions *)

PALETTES ==
  << <<"#e8734a", "#f4a261", "#fef0e4", "#264653", "#2a9d8f">>,
     <<"#6b705c", "#a5a58d", "#ffe8d6", "#cb997e", "#ddbea9">>,
     <<"#bc6c25", "#dda15e", "#fefae0", "#606c38", "#283618">>,
     <<"#e07a5f", "#f2cc8f", "#f4f1de", "#3d405b", "#81b29a">>,
     <<"#d4a373", "#faedcd", "#fefae0", "#e9edc9", "#ccd5ae">>,
     <<"#b5838d", "#e5989b", "#ffb4a2", "#ffcdb2", "#6d6875">>,
     <<"#7f5539", "#b08968", "#ddb892", "#e6ccb2", "#ede0d4">>,
     <<"#588157", "#a3b18a", "#dad7cd", "#344e41", "#3a5a40">> >>

\* An array element arr[i], i a JS index; dflt stands for undefined
At(arr, i, dflt) == IF i >= 0 /\ i < Len(arr) THEN arr[i + 1] ELSE dflt

\* PALETTES[h % PALETTES.length]
GetPalette(h) == At(PALETTES, JsRem(h, Len(PALETTES)), <<>>)

\* palette[Math.floor(rand() * palette.length)], d the state rand() left
Colour(pal, d) == At(pal, FloorRand(d, Len(pal)), "undefined")

ViewW == 400

ViewH == 200

\* The result of a pattern function: the shapes appended to the markup and
\* the values it took from the stream, in the order it took them
Emitted(shapes, draws) == [shapes |-> shapes, draws |-> draws]

\* blobPattern: count circles, five values each
BlobPattern(x, pal) ==
  LET c     == LcgStep(x)
      count == 3 + FloorRand(c, 3)
      ds    == Draws(c, 5 * count)
  IN  Emitted([i \in 1..count |->
                 <<"circle", ds[5 * i - 4], ds[5 * i - 3], ds[5 * i - 2],
                   Colour(pal, ds[5 * i - 1]), ds[5 * i]>>],
              <<c>> \o ds)

\* geoPattern: one iteration of the loop; a rectangle takes an eighth value
\* (rx) inside its template, a triangle does not
GeoShape(x, pal) ==
  LET ds   == Draws(x, 7)
      rect == RandGreater(ds[7], 1, 2)
      rx   == LcgStep(ds[7])
  IN  IF rect
        THEN Emitted(<< <<"rect", ds[1], ds[2], ds[3], Colour(pal, ds[4]),
                          ds[5], ds[6], rx>> >>, ds \o <<rx>>)
        ELSE Emitted(<< <<"polygon", ds[1], ds[2], ds[3], Colour(pal, ds[4]),
                          ds[5], ds[6]>> >>, ds)

\* What a loop has emitted after one more iteration
Join(a, b) == Emitted(a.shapes \o b.shapes, a.draws \o b.draws)

RECURSIVE GeoLoop(_, _, _)
GeoLoop(x, n, pal) ==
  IF n <= 0 THEN Emitted(<<>>, <<>>)
  ELSE CHOOSE r \in {Join(one, GeoLoop(Last(one.draws, x), n - 1, pal)) :
                       one \in {GeoShape(x, pal)}} : TRUE

GeoPattern(x, pal) ==
  LET c     == LcgStep(x)
      count == 4 + FloorRand(c, 4)
      body  == GeoLoop(c, count, pal)
  IN  Emitted(body.shapes, <<c>> \o body.draws)

\* The number of x in 0, 10, 20, ... with x <= w
WavePoints == (ViewW \div 10) + 1

\* wavePattern: per line amplitude, frequency, colour, stroke width, one
\* value per point of the path, then the opacity inside the template
WavePattern(x, pal) ==
  LET c         == LcgStep(x)
      lineCount == 3 + FloorRand(c, 4)
      per       == 4 + WavePoints + 1
      ds        == Draws(c, per * lineCount)
  IN  Emitted([i \in 1..lineCount |->
                 LET o == per * (i - 1)
                 IN  <<"path", i, lineCount, ds[o + 1], ds[o + 2],
                       Colour(pal, ds[o + 3]), ds[o + 4],
                       SubSeq(ds, o + 5, o + 4 + WavePoints), ds[o + per]>>],
              <<c>> \o ds)

\* dotGridPattern: spacing and jitter, then five values per dot, columns
\* outermost
DotGridPattern(x, pal) ==
  LET c       == LcgStep(x)
      spacing == 25 + FloorRand(c, 15)
      j       == LcgStep(c)
      cols    == (ViewW - 1) \div spacing
      rows    == (ViewH - 1) \div spacing
      ds      == Draws(j, 5 * cols * rows)
  IN  Emitted([i \in 1..(cols * rows) |->
                 <<"circle", (((i - 1) \div rows) + 1) * spacing,
                   (((i - 1) % rows) + 1) * spacing, j,
                   ds[5 * i - 4], ds[5 * i - 3], ds[5 * i - 2],
                   Colour(pal, ds[5 * i - 1]), ds[5 * i]>>],
              <<c, j>> \o ds)

\* arcPattern: count arcs, seven values each and the opacity in the template
ArcPattern(x, pal) ==
  LET c     == LcgStep(x)
      count == 4 + FloorRand(c, 4)
      ds    == Draws(c, 8 * count)
  IN  Emitted([i \in 1..count |->
                 LET o == 8 * (i - 1)
                 IN  <<"path", ds[o + 1], ds[o + 2], ds[o + 3], ds[o + 4],
                       ds[o + 5], Colour(pal, ds[o + 6]), ds[o + 7], ds[o + 8]>>],
              <<c>> \o ds)

\* layeredCirclePattern: one group, rings + 1 circles (i = rings down to 0)
CircleGroup(x, pal) ==
  LET hd    == Draws(x, 4)
      rings == 3 + FloorRand(hd[3], 3)
      ds    == Draws(hd[4], 4 * (rings + 1))
  IN  Emitted([k \in 1..(rings + 1) |->
                 <<"circle", hd[1], hd[2], hd[4], rings - (k - 1), rings,
                   Colour(pal, ds[4 * k - 3]), ds[4 * k - 2], ds[4 * k - 1],
                   ds[4 * k]>>],
              hd \o ds)

RECURSIVE GroupLoop(_, _, _)
GroupLoop(x, n, pal) ==
  IF n <= 0 THEN Emitted(<<>>, <<>>)
  ELSE CHOOSE r \in {Join(one, GroupLoop(Last(one.draws, x), n - 1, pal)) :
                       one \in {CircleGroup(x, pal)}} : TRUE

LayeredCirclePattern(x, pal) ==
  LET c      == LcgStep(x)
      groups == 2 + FloorRand(c, 2)
      body   == GroupLoop(c, groups, pal)
  IN  Emitted(body.shapes, <<c>> \o body.draws)

PATTERNS ==
  <<"blobPattern", "geoPattern", "wavePattern", "dotGridPattern", "arcPattern",
    "layeredCirclePattern">>

\* PATTERNS[i](rand, palette, w, h), x the state of rand
CallPattern(name, x, pal) ==
  CASE name = "blobPattern"          -> BlobPattern(x, pal)
    [] name = "geoPattern"           -> GeoPattern(x, pal)
    [] name = "wavePattern"          -> WavePattern(x, pal)
    [] name = "dotGridPattern"       -> DotGridPattern(x, pal)
    [] name = "arcPattern"           -> ArcPattern(x, pal)
    [] name = "layeredCirclePattern" -> LayeredCirclePattern(x, pal)

----------------------------------------------------------------------------
(* CardArt.generate *)

\* '' (the default of the parameter type), 'quick_bite', 'tool_drop'
TypeOmitted == <<>>

TypeQuickBite == <<113, 117, 105, 99, 107, 95, 98, 105, 116, 101>>

TypeToolDrop == <<116, 111, 111, 108, 95, 100, 114, 111, 112>>

Types == {TypeOmitted, TypeQuickBite, TypeToolDrop}

\* 'a', ' ' and the digit '1'
TitleChars == {97, 32, 49}

MaxTitleLen == 2

RECURSIVE StringsUpTo(_, _)
StringsUpTo(chars, n) ==
  IF n = 0 THEN {<<>>}
  ELSE LET shorter == StringsUpTo(chars, n - 1)
       IN  shorter \cup {Append(w, c) : w \in shorter, c \in chars}

\* 'Test Title', and titles whose hash meets a boundary of the 32-bit range:
\* '1Xfh ji' + 'quick_bite' hashes to 0, 'UWjaAAN' + 'quick_bite' and
\* 'S1fCcmd' to 2147483647, 'S1fCcmf' to -2147483647 and 'QHLMVld' +
\* 'quick_bite' and 'S1fCcme' to -2147483648 before Math.abs
LongTitles ==
  { <<84, 101, 115, 116, 32, 84, 105, 116, 108, 101>>,
    <<49, 88, 102, 104, 32, 106, 105>>,
    <<85, 87, 106, 97, 65, 65, 78>>,
    <<83, 49, 102, 67, 99, 109, 100>>,
    <<83, 49, 102, 67, 99, 109, 102>>,
    <<81, 72, 76, 77, 86, 108, 100>>,
    <<83, 49, 102, 67, 99, 109, 101>> }

Titles == StringsUpTo(TitleChars, MaxTitleLen) \cup LongTitles

\* An entry of the draw log: who called rand(), what it got, and how many
\* elements it appended to the markup
Consumed(by, draws, n) == [by |-> by, draws |-> draws, n |-> n]

\* lines 182-203: seed, stream, palette, the useTwo decision, the gradient
\* and the head of the markup.  palette[2] throws when palette is undefined.
\* What the caller does with its deck is the caller's to say.
Call(t, y) ==
  /\ artPc \in {"idle", "done", "threw"}
  /\ title' = t
  /\ type' = y
  /\ LET sd  == Hash(t \o y)
         pal == GetPalette(sd)
         d1  == LcgStep(SeededRandom(sd))
         d2  == LcgStep(d1)
     IN  /\ seed' = sd
         /\ palette' = pal
         /\ useTwo' = RandGreater(d1, 2, 5)
         /\ IF pal = <<>>
              THEN /\ artPc' = "threw"
                   /\ s' = d1
                   /\ svg' = <<>>
                   /\ drawLog' = <<Consumed("useTwo", <<d1>>, 0)>>
              ELSE /\ artPc' = "layer1"
                   /\ s' = d2
                   /\ svg' = << <<"svg", ViewW, ViewH>>,
                                <<"linearGradient", sd, FloorRand(d2, 360),
                                  pal[3], pal[4]>>,
                                <<"rect", ViewW, ViewH, sd>> >>
                   /\ drawLog' = <<Consumed("useTwo", <<d1>>, 0),
                                   Consumed("gradAngle", <<d2>>, 3)>>
  /\ UNCHANGED <<results, notArt>>

\* svg += PATTERNS[idx](rand, palette, w, h); calling undefined throws
Layer(idx, next) ==
  LET name == At(PATTERNS, idx, "undefined")
  IN  IF name = "undefined"
        THEN /\ artPc' = "threw"
             /\ UNCHANGED <<s, svg, drawLog>>
        ELSE LET out == CallPattern(name, s, palette)
             IN  /\ artPc' = next
                 /\ s' = Last(out.draws, s)
                 /\ svg' = svg \o out.shapes
                 /\ drawLog' = Append(drawLog, Consumed(name, out.draws, Len(out.shapes)))

\* seed % (PATTERNS.length + 1): an index one past the end is possible
PatternIdx1PastEnd(sd) == JsRem(sd, Len(PATTERNS) + 1)

\* const patternIdx1 = seed % PATTERNS.length
PatternIdx1(sd) == JsRem(sd, Len(PATTERNS))

\* (seed + 2) in the place of (seed + 3)
PatternIdx2Plus2(sd) == JsRem(NumPlus(sd, 2), Len(PATTERNS))

\* const patternIdx2 = (seed + 3) % PATTERNS.length
PatternIdx2(sd) == JsRem(NumPlus(sd, 3), Len(PATTERNS))

\* line 206
Layer1 ==
  /\ artPc = "layer1"
  /\ Layer(PatternIdx1(seed), IF useTwo THEN "layer2" ELSE "closing")
  /\ UNCHANGED <<title, type, seed, palette, useTwo, results, deck, notArt>>

\* lines 207-209
Layer2 ==
  /\ artPc = "layer2"
  /\ Layer(PatternIdx2(seed), "closing")
  /\ UNCHANGED <<title, type, seed, palette, useTwo, results, deck, notArt>>

\* lines 211-212
Return ==
  /\ artPc = "closing"
  /\ artPc' = "done"
  /\ svg' = Append(svg, <<"/svg">>)
  /\ UNCHANGED <<title, type, seed, palette, s, useTwo, drawLog, results, deck, notArt>>

\* lines 211-212, the caller keeping what it was handed
ReturnObserved ==
  /\ artPc = "closing"
  /\ artPc' = "done"
  /\ svg' = Append(svg, <<"/svg">>)
  /\ results' = Append(results, [title |-> title, type |-> type, svg |-> svg'])
  /\ UNCHANGED <<title, type, seed, palette, s, useTwo, drawLog, deck, notArt>>

InitArt ==
  /\ title = <<>>
  /\ type = <<>>
  /\ artPc = "idle"
  /\ seed = NumOf(0)
  /\ palette = <<>>
  /\ s = 0
  /\ useTwo = FALSE
  /\ svg = <<>>
  /\ drawLog = <<>>
  /\ results = <<>>
  /\ deck = [pc |-> "idle", file |-> "", cards |-> <<>>, slides |-> <<>>, failed |-> 0]

----------------------------------------------------------------------------
(* buildCardSlide and the error handler of its image *)

\* A field that a card has not: undefined, which is no string
Missing == <<-1>>

\* 'undefined', what undefined becomes inside a string
StrUndefined == <<117, 110, 100, 101, 102, 105, 110, 101, 100>>

\* String(v), as string concatenation and template literals apply it
ToStr(v) == IF v = Missing THEN StrUndefined ELSE v

\* v || dflt
OrElse(v, dflt) == IF v = Missing \/ v = <<>> THEN dflt ELSE v

Apostrophe == 39

Backslash == 92

Ampersand == 38

\* The strings of seq, one after the other
RECURSIVE Concat(_)
Concat(seq) == IF seq = <<>> THEN <<>> ELSE Head(seq) \o Concat(Tail(seq))

\* function escapeHtml(str): '' for a falsy str; & < > " become entities
EscapeHtml(str) ==
  IF str = Missing \/ str = <<>> THEN <<>>
  ELSE Concat([i \in 1..Len(str) |->
                 CASE str[i] = Ampersand -> <<38, 97, 109, 112, 59>>
                   [] str[i] = 60        -> <<38, 108, 116, 59>>
                   [] str[i] = 62        -> <<38, 103, 116, 59>>
                   [] str[i] = 34        -> <<38, 113, 117, 111, 116, 59>>
                   [] OTHER              -> <<str[i]>>])

\* str.replace(/'/g, "\\'")
EscapeApostrophes(str) ==
  Concat([i \in 1..Len(str) |->
            IF str[i] = Apostrophe THEN <<Backslash, Apostrophe>> ELSE <<str[i]>>])

\* The value the HTML parser gives an attribute written as str: the
\* character references &amp; &lt; &gt; &quot; become their characters
RECURSIVE AttributeValue(_)
AttributeValue(str) ==
  LET starts(ref) == Len(str) >= Len(ref) /\ SubSeq(str, 1, Len(ref)) = ref
      rest(ref)   == SubSeq(str, Len(ref) + 1, Len(str))
  IN  IF str = <<>> THEN <<>>
      ELSE IF starts(<<38, 97, 109, 112, 59>>) THEN <<Ampersand>> \o AttributeValue(rest(<<38, 97, 109, 112, 59>>))
      ELSE IF starts(<<38, 108, 116, 59>>) THEN <<60>> \o AttributeValue(rest(<<38, 108, 116, 59>>))
      ELSE IF starts(<<38, 103, 116, 59>>) THEN <<62>> \o AttributeValue(rest(<<38, 103, 116, 59>>))
      ELSE IF starts(<<38, 113, 117, 111, 116, 59>>) THEN <<34>> \o AttributeValue(rest(<<38, 113, 117, 111, 116, 59>>))
      ELSE <<Head(str)>> \o AttributeValue(Tail(str))

\* The value of the script text 'str' as a string literal: a backslash
\* makes the character after it part of the string (none of the characters
\* of the model's titles is an escape letter); a lone apostrophe would end
\* the literal, and a backslash at the end takes the closing quote, so the
\* handler does not compile.  <<value>>, or <<>> where it does not compile.
RECURSIVE LiteralValue(_)
LiteralValue(str) ==
  IF str = <<>> THEN << <<>> >>
  ELSE IF str[1] = Apostrophe THEN <<>>
  ELSE IF str[1] = Backslash
    THEN IF Len(str) = 1 THEN <<>>
         ELSE LET more == LiteralValue(SubSeq(str, 3, Len(str)))
              IN  IF more = <<>> THEN <<>> ELSE << <<str[2]>> \o more[1] >>
  ELSE LET more == LiteralValue(Tail(str))
       IN  IF more = <<>> THEN <<>> ELSE << <<str[1]>> \o more[1] >>

\* src/www/app.js 185: onerror is CardArt.generate('','<card.type>')
OnErrorWww(c) ==
  LET y == LiteralValue(AttributeValue(ToStr(c.type)))
  IN  IF y = <<>> THEN <<>> ELSE << <<>>, y[1] >>

\* part_000 94: onerror is
\* CardArt.generate('<escapeHtml(card.title) with \' for '>','<card.type>')
OnErrorApp(c) ==
  LET t == LiteralValue(AttributeValue(EscapeApostrophes(EscapeHtml(c.title))))
      y == LiteralValue(AttributeValue(ToStr(c.type)))
  IN  IF t = <<>> \/ y = <<>> THEN <<>> ELSE <<t[1], y[1]>>

\* The arguments of the call in the onerror attribute of the slide's image,
\* or <<>> when the attribute is no script
OnError(file, c) == IF file = "www" THEN OnErrorWww(c) ELSE OnErrorApp(c)

\* The arguments of the call buildCardSlide makes for a card without
\* image_url: www 186 has card.title || '' and card.type || 'quick_bite',
\* part_000 95 has card.title and card.type, of which generate(title,
\* type = '') makes '' of a missing type and title + type makes 'undefined'
\* of a missing title
DirectArgs(file, c) ==
  IF file = "www" THEN <<OrElse(c.title, <<>>), OrElse(c.type, TypeQuickBite)>>
  ELSE <<ToStr(c.title), IF c.type = Missing THEN <<>> ELSE c.type>>

\* Before any deck is rendered
NoDeck == [pc |-> "idle", file |-> "", cards |-> <<>>, slides |-> <<>>, failed |-> 0]

MaxErrorEvents == 2

\* The art slot of a slide: the markup in it, where <<>> stands for the img
\* element, the arguments of the img element's onerror call, the error
\* events that element has had and the times its handler has put markup
\* into the slot
Slide(art, onerror) ==
  [art |-> art, onerror |-> onerror, errors |-> 0, substitutions |-> 0]

\* an img element taken to be in its slot for ever
InSlotAlways(slide) == TRUE

\* The img element is still in its slot.  Once it is not, this.parentElement
\* is null and the assignment of www 185 throws, and the outerHTML setter
\* of part_000 94 does nothing for an element without a parent.
InSlot(slide) == slide.art = <<>>

\* A deck arrives: the card c without image_url, and the same card with one
RenderDeck(file, c) ==
  /\ deck.pc = "idle"
  /\ deck' = [NoDeck EXCEPT !.pc = "build", !.file = file,
                            !.cards =
                              <<[title |-> c.title, type |-> c.type, image_url |-> FALSE],
                                [title |-> c.title, type |-> c.type, image_url |-> TRUE]>>]
  /\ UNCHANGED <<title, type, artPc, seed, palette, s, useTwo, svg, drawLog,
                 results, notArt>>

\* buildCardSlide for the next card of the deck, one with image_url: the
\* slot gets the img element
BuildCardSlideImage ==
  /\ deck.pc = "build"
  /\ Len(deck.slides) < Len(deck.cards)
  /\ LET c == deck.cards[Len(deck.slides) + 1]
     IN  /\ c.image_url
         /\ deck' = [deck EXCEPT
                       !.slides = Append(@, Slide(<<>>, <<OnError(deck.file, c)>>))]
  /\ UNCHANGED <<title, type, artPc, seed, palette, s, useTwo, svg, drawLog,
                 results, notArt>>

\* buildCardSlide for the next card of the deck, one without image_url:
\* CardArt.generate is called
BuildCardSlideArt ==
  /\ deck.pc = "build"
  /\ Len(deck.slides) < Len(deck.cards)
  /\ LET c == deck.cards[Len(deck.slides) + 1]
     IN  /\ ~c.image_url
         /\ Call(DirectArgs(deck.file, c)[1], DirectArgs(deck.file, c)[2])
  /\ deck' = [deck EXCEPT !.pc = "calling"]

\* CardArt.generate returned to buildCardSlide: the slot gets the markup
SlideArt ==
  /\ deck.pc = "calling"
  /\ artPc = "done"
  /\ deck' = [deck EXCEPT !.pc = "build", !.slides = Append(@, Slide(svg, <<>>))]
  /\ UNCHANGED <<title, type, artPc, seed, palette, s, useTwo, svg, drawLog,
                 results, notArt>>

\* An error event reaches the img element of slide k, for a load that
\* failed or dispatched by anything else, and its onerror attribute runs
ImageError(k) ==
  /\ deck.pc \in {"build", "shown"}
  /\ Len(deck.slides) = Len(deck.cards)
  /\ k \in 1..Len(deck.slides)
  /\ deck.slides[k].onerror # <<>>
  /\ deck.slides[k].errors < MaxErrorEvents
  /\ LET args == deck.slides[k].onerror[1]
     IN  IF args = <<>>
           THEN /\ deck' = [deck EXCEPT !.pc = "shown", !.failed = k,
                                        !.slides[k].errors = @ + 1]
                /\ UNCHANGED <<title, type, artPc, seed, palette, s, useTwo, svg,
                               drawLog, results, notArt>>
           ELSE /\ deck' = [deck EXCEPT !.pc = "onerror", !.failed = k,
                                        !.slides[k].errors = @ + 1]
                /\ Call(args[1], args[2])

\* CardArt.generate returned to the handler, which puts the markup in the
\* place of the image
ErrorArt ==
  /\ deck.pc = "onerror"
  /\ artPc = "done"
  /\ deck' = IF InSlot(deck.slides[deck.failed])
               THEN [deck EXCEPT !.pc = "shown",
                                 !.slides[deck.failed].art = svg,
                                 !.slides[deck.failed].substitutions = @ + 1]
               ELSE [deck EXCEPT !.pc = "shown"]
  /\ UNCHANGED <<title, type, artPc, seed, palette, s, useTwo, svg, drawLog,
                 results, notArt>>

----------------------------------------------------------------------------
(* CardImage *)

\* const W, H, PAD
CanvasW == 1080

CanvasH == 1920

PAD == 80

\* const CONTENT_W = W - PAD * 2
CONTENT_W == CanvasW - PAD * 2

\* the separator of text.split(' ')
Space == 32

\* the separator of bodyText.split('\n')
Newline == 10

\* a character that the measured font draws twice as wide as the others
WideChar == 87

\* ctx.measureText(str).width.  The metrics belong to the environment: a
\* context ctx draws every character ctx px wide and WideChar twice that.
MeasureText(ctx, str) ==
  ctx * (Len(str) + Cardinality({i \in 1..Len(str) : str[i] = WideChar}))

\* str.split(sep): the pieces of str between the occurrences of sep
Split(str, sep) ==
  LET at == {i \in 1..Len(str) : str[i] = sep}
      cut(k) == IF k = 0 THEN 0
                ELSE IF k > Cardinality(at) THEN Len(str) + 1
                ELSE CHOOSE i \in at : Cardinality({j \in at : j <= i}) = k
  IN  [k \in 1..(Cardinality(at) + 1) |-> SubSeq(str, cut(k - 1) + 1, cut(k) - 1)]

\* The forEach callback measuring the line so far where the code measures
\* the line with the word added
WrapWordMeasuresLine(ctx, ls, cur, w, maxW) ==
  LET testLine == IF cur # <<>> THEN cur \o <<Space>> \o w ELSE w
  IN  IF MeasureText(ctx, cur) > maxW /\ cur # <<>>
        THEN [lines |-> Append(ls, cur), currentLine |-> w]
        ELSE [lines |-> ls, currentLine |-> testLine]

\* The forEach callback starting a line for every word after the first
WrapWordAlwaysBreaks(ctx, ls, cur, w, maxW) ==
  IF cur # <<>>
    THEN [lines |-> Append(ls, cur), currentLine |-> w]
    ELSE [lines |-> ls, currentLine |-> w]

\* The callback of words.forEach, lines 300-308: from lines ls and
\* currentLine cur to the lines and currentLine after word w
WrapWord(ctx, ls, cur, w, maxW) ==
  LET testLine == IF cur # <<>> THEN cur \o <<Space>> \o w ELSE w
  IN  IF MeasureText(ctx, testLine) > maxW /\ cur # <<>>
        THEN [lines |-> Append(ls, cur), currentLine |-> w]
        ELSE [lines |-> ls, currentLine |-> testLine]

\* words.forEach from word i on
RECURSIVE WrapLoop(_, _, _, _, _)
WrapLoop(ctx, words, i, acc, maxW) ==
  IF i > Len(words) THEN acc
  ELSE CHOOSE r \in {WrapLoop(ctx, words, i + 1, a, maxW) :
                       a \in {WrapWord(ctx, acc.lines, acc.currentLine, words[i], maxW)}} : TRUE

\* if (currentLine) lines.push(currentLine); return lines
WrapEnd(ls, cur) == IF cur # <<>> THEN Append(ls, cur) ELSE ls

\* function wrapText(ctx, text, maxWidth)
WrapText(ctx, str, maxW) ==
  LET end == WrapLoop(ctx, Split(str, Space), 1,
                      [lines |-> <<>>, currentLine |-> <<>>], maxW)
  IN  WrapEnd(end.lines, end.currentLine)

(* wrapText, one word at a time *)

\* lines 296-298; the call is followed to its return
WrapCall(ctx, t, m) ==
  /\ wrapPc = "idle"
  /\ advance' = ctx
  /\ text' = t
  /\ maxWidth' = m
  /\ word' = 1
  /\ lines' = <<>>
  /\ currentLine' = <<>>
  /\ wrapPc' = "forEach"
  /\ UNCHANGED <<artVars, appVars, sw, boot, imgVars, shares>>

\* lines 300-309, one word
WrapForEach ==
  /\ wrapPc = "forEach"
  /\ word <= Len(Split(text, Space))
  /\ LET r == WrapWord(advance, lines, currentLine, Split(text, Space)[word], maxWidth)
     IN  /\ lines' = r.lines
         /\ currentLine' = r.currentLine
  /\ word' = word + 1
  /\ UNCHANGED <<artVars, appVars, sw, boot, imgVars, shares, advance, text, maxWidth, wrapPc>>

\* lines 310-311
WrapReturn ==
  /\ wrapPc = "forEach"
  /\ word > Len(Split(text, Space))
  /\ lines' = WrapEnd(lines, currentLine)
  /\ wrapPc' = "done"
  /\ UNCHANGED <<artVars, appVars, sw, boot, imgVars, shares, advance, text, maxWidth, word, currentLine>>

(* CardImage.generate *)

\* let y = 140; y += 100; const cardTop = y
CardTop == 140 + 100

\* const cardPad
CardPad == 60

\* const tagH
TagH == 52

\* const titleLineHeight
TitleLineHeight == 72

\* const bodyLineHeight
BodyLineHeight == 58

\* const maxBodyLines
MaxBodyLines == 16

\* CONTENT_W - cardPad * 2, the width the title and the body are wrapped to
WrapWidth == CONTENT_W - CardPad * 2

\* The elements of arr at the indices in the set at, in order
Kept(arr, at) ==
  [k \in 1..Cardinality(at) |->
     arr[CHOOSE i \in at : Cardinality({j \in at : j <= i}) = k]]

\* str.replace(/\n+/g, '\n'): of every run of newlines the first one stays
CollapseNewlines(str) ==
  Kept(str, {i \in 1..Len(str) : ~(str[i] = Newline /\ i > 1 /\ str[i - 1] = Newline)})

\* str.trim(); of the white space only ' ' and '\n' occur
Trim(str) ==
  LET ink == {i \in 1..Len(str) : str[i] \notin {Space, Newline}}
  IN  IF ink = {} THEN <<>>
      ELSE SubSeq(str, CHOOSE i \in ink : \A j \in ink : i <= j,
                       CHOOSE i \in ink : \A j \in ink : j <= i)

\* bodyParagraphs.forEach from paragraph pi on (pi counts from 1), lines 399-403
RECURSIVE BodyLoop(_, _, _, _)
BodyLoop(ctx, paras, pi, acc) ==
  IF pi > Len(paras) THEN acc
  ELSE LET para == Trim(paras[pi])
           gap  == IF pi > 1 /\ para # <<>> THEN << <<>> >> ELSE <<>>
       IN  CHOOSE r \in {BodyLoop(ctx, paras, pi + 1, a) :
                           a \in {acc \o gap \o WrapText(ctx, para, WrapWidth)}} : TRUE

\* lines 396-403: const bodyLines, for card.body || '' given as body
BodyLines(ctx, body) ==
  BodyLoop(ctx, Split(CollapseNewlines(body), Newline), 1, <<>>)

\* The other keys of TYPE_COLORS
TypeHolyShit == <<104, 111, 108, 121, 95, 115, 104, 105, 116>>

TypeTryThis == <<116, 114, 121, 95, 116, 104, 105, 115>>

TypeBsDetector == <<98, 115, 95, 100, 101, 116, 101, 99, 116, 111, 114>>

TypeCookie == <<99, 111, 111, 107, 105, 101>>

\* "brief", a type that is no key of TYPE_COLORS
TypeBrief == <<98, 114, 105, 101, 102>>

\* "constructor", "toString", "__proto__": no keys of TYPE_COLORS either
TypeConstructor == <<99, 111, 110, 115, 116, 114, 117, 99, 116, 111, 114>>

TypeToString == <<116, 111, 83, 116, 114, 105, 110, 103>>

TypeProto == <<95, 95, 112, 114, 111, 116, 111, 95, 95>>

\* What reading a property that an object has not gives
Undefined == "undefined"

\* const TYPE_COLORS, its own properties
TYPE_COLORS ==
  [k \in {TypeHolyShit, TypeQuickBite, TypeToolDrop, TypeTryThis, TypeBsDetector,
          TypeCookie} |->
     CASE k = TypeHolyShit ->
            [bg |-> "#1c1017", accent |-> "#dc2626", tagBg |-> "#fee2e2", tagText |-> "#b91c1c"]
       [] k = TypeQuickBite ->
            [bg |-> "#1a1708", accent |-> "#d97706", tagBg |-> "#fef3c7", tagText |-> "#92400e"]
       [] k = TypeToolDrop ->
            [bg |-> "#0a1a10", accent |-> "#16a34a", tagBg |-> "#dcfce7", tagText |-> "#15803d"]
       [] k = TypeTryThis ->
            [bg |-> "#0c1220", accent |-> "#2563eb", tagBg |-> "#dbeafe", tagText |-> "#1d4ed8"]
       [] k = TypeBsDetector ->
            [bg |-> "#150c1e", accent |-> "#9333ea", tagBg |-> "#f3e8ff", tagText |-> "#7e22ce"]
       [] k = TypeCookie ->
            [bg |-> "#1a120a", accent |-> "#e8734a", tagBg |-> "#fef0e4", tagText |-> "#e8734a"]]

\* Names that every object literal inherits from Object.prototype: reading
\* one of them gives a function or an object, which is truthy
ObjectPrototypeKeys == {TypeConstructor, TypeToString, TypeProto}

\* What reading bg, accent, tagBg and tagText of an inherited value gives
Inherited ==
  [bg |-> Undefined, accent |-> Undefined, tagBg |-> Undefined, tagText |-> Undefined]

\* TYPE_COLORS[type]: the set holding the own property of that name, or
\* else the inherited one; the empty set when the read gives undefined
TypeColorsAt(key) ==
  IF key \in DOMAIN TYPE_COLORS THEN {TYPE_COLORS[key]}
  ELSE IF key \in ObjectPrototypeKeys THEN {Inherited}
  ELSE {}

\* lines 340-341: const type = card.type || 'quick_bite';
\* const colors = TYPE_COLORS[type] || TYPE_COLORS.quick_bite
Colors(cardType) ==
  LET found == TypeColorsAt(IF cardType # <<>> THEN cardType ELSE TypeQuickBite)
  IN  IF found # {} THEN CHOOSE v \in found : TRUE ELSE TYPE_COLORS[TypeQuickBite]

\* if (sourceText) contentY += 50, left out
SourceGapOmitted(sourceName) == 0

\* lines 413-415: what the source line adds to contentY
SourceGap(sourceName) == IF sourceName # <<>> THEN 50 ELSE 0

\* getContext('2d') returning null
NullContext == 0

\* arr.slice(begin), where the code has arr.slice(begin, end)
SliceToEnd(arr, begin, end) == SubSeq(arr, begin + 1, Len(arr))

\* arr.slice(begin, end) for 0 <= begin <= end
Slice(arr, begin, end) ==
  SubSeq(arr, begin + 1, IF end < Len(arr) THEN end ELSE Len(arr))

\* A drawing call: what it draws, and the y (for the card background, the
\* height) it is given
Op(what, at) == [what |-> what, at |-> at]

\* lines 343-362: the background, the glow and the brand header at y = 140
BeforeCard == <<Op("background", 0), Op("glow", 0), Op("header", 140)>>

\* the tag pill drawn before the card background
CardOpsTagFirst(h, titleY, nTitle, bodyCalls, sourceName, sourceY) ==
  <<Op("tagBackground", CardTop + CardPad), Op("tagText", CardTop + CardPad + 36),
    Op("cardBackground", h), Op("accentBar", CardTop)>>
    \o [i \in 1..nTitle |-> Op("title", titleY + i * TitleLineHeight)]
    \o [i \in 1..Len(bodyCalls) |-> Op("body", bodyCalls[i][3])]
    \o (IF sourceName # <<>> THEN <<Op("source", sourceY + 36)>> ELSE <<>>)
    \o <<Op("footer", CanvasH - 120)>>

\* lines 420-476: the card background of height h, the accent bar, the tag
\* pill and its text, a fillText for every title line, the fillText calls
\* of the body, the source line if there is one, the footer
CardOps(h, titleY, nTitle, bodyCalls, sourceName, sourceY) ==
  <<Op("cardBackground", h), Op("accentBar", CardTop),
    Op("tagBackground", CardTop + CardPad), Op("tagText", CardTop + CardPad + 36)>>
    \o [i \in 1..nTitle |-> Op("title", titleY + i * TitleLineHeight)]
    \o [i \in 1..Len(bodyCalls) |-> Op("body", bodyCalls[i][3])]
    \o (IF sourceName # <<>> THEN <<Op("source", sourceY + 36)>> ELSE <<>>)
    \o <<Op("footer", CanvasH - 120)>>

\* lines 335-392: canvas, background, header, tag and the wrapped title.
\* ctx is the metric of the title font in the new context.  Who made the
\* call is the caller's to record.
Generate(c, ctx) ==
  /\ imgPc \in {"idle", "done", "threw"}
  /\ card' = c
  /\ advance' = ctx
  /\ colors' = Colors(c.type)
  /\ bodyLines' = <<>>
  /\ visibleBodyLines' = <<>>
  /\ bodyY' = -1
  /\ cardHeight' = -1
  /\ painted' = <<>>
  /\ ops' = IF ctx = NullContext \/ Undefined \in {colors'.bg, colors'.accent}
              THEN <<>>
              ELSE BeforeCard
  /\ IF ctx = NullContext
       THEN \* line 345: ctx.createLinearGradient on null
            /\ imgPc' = "threw"
            /\ imgError' = "TypeError"
            /\ titleLines' = <<>>
            /\ contentY' = 0
       ELSE IF Undefined \in {colors'.bg, colors'.accent}
       THEN \* lines 346, 354: addColorStop with a colour that cannot be parsed
            /\ imgPc' = "threw"
            /\ imgError' = "SyntaxError"
            /\ titleLines' = <<>>
            /\ contentY' = 0
       ELSE /\ imgPc' = "body"
            /\ imgError' = ""
            /\ titleLines' = WrapText(ctx, c.title, WrapWidth)
            /\ contentY' = CardTop + CardPad + TagH + 36
                             + Len(titleLines') * TitleLineHeight + 40
  /\ UNCHANGED <<artVars, appVars, sw, boot, wrapVars>>

\* lines 394-405: the body font is set, ctx is its metric; const bodyLines
\* and const bodyY
BodyLayout(ctx) ==
  /\ imgPc = "body"
  /\ advance' = ctx
  /\ bodyLines' = BodyLines(ctx, card.body)
  /\ bodyY' = contentY
  /\ imgPc' = "truncate"
  /\ UNCHANGED <<artVars, appVars, sw, boot, wrapVars, shares, card, titleLines, visibleBodyLines,
                 contentY, cardHeight, painted, colors, imgError, ops>>

\* lines 407-420: the visible lines, the source line, the card height
Truncate ==
  /\ imgPc = "truncate"
  /\ visibleBodyLines' = Slice(bodyLines, 0, MaxBodyLines)
  /\ contentY' = contentY + Len(visibleBodyLines') * BodyLineHeight + 50
                   + SourceGap(card.source_name) + CardPad
  /\ cardHeight' = contentY' - CardTop
  /\ imgPc' = "paint"
  /\ UNCHANGED <<artVars, appVars, sw, boot, wrapVars, shares, advance, card, titleLines, bodyLines,
                 bodyY, painted, colors, imgError, ops>>

\* lines 421-478, of which the body is modelled: one fillText(line, x, y)
\* for every visible line that is not a blank marker
Paint ==
  /\ imgPc = "paint"
  /\ LET calls == [i \in 1..Len(visibleBodyLines) |->
                     <<visibleBodyLines[i], PAD + CardPad, bodyY + i * BodyLineHeight>>]
     IN  /\ painted' = Kept(calls, {i \in 1..Len(calls) : visibleBodyLines[i] # <<>>})
         /\ ops' = ops \o CardOps(cardHeight,
                                   bodyY - 40 - Len(titleLines) * TitleLineHeight,
                                   Len(titleLines), painted', card.source_name,
                                   bodyY + Len(visibleBodyLines) * BodyLineHeight + 50)
  /\ imgPc' = "done"
  /\ UNCHANGED <<artVars, appVars, sw, boot, wrapVars, shares, advance, card, titleLines, bodyLines,
                 visibleBodyLines, bodyY, contentY, cardHeight, colors, imgError>>

\* line 478: canvas.toDataURL throwing, after everything was painted
PaintThrows ==
  /\ imgPc = "paint"
  /\ imgPc' = "threw"
  /\ imgError' = "SecurityError"
  /\ UNCHANGED <<artVars, appVars, sw, boot, wrapVars, shares, advance, card, titleLines, bodyLines,
                 visibleBodyLines, bodyY, contentY, cardHeight, painted, colors,
                 ops>>

(* The cards and texts the calls are made with *)

\* The widths a context may give a character: narrow enough for a paragraph
\* to fit a line, wide enough for two words not to, wider than a line
Advances == {30, 450, 900}

BodyChars == {97, Space, Newline}

MaxBodyLen == 3

MaxRepeat == 9

\* "a\n", "a a\n", "a\n\n", "a "
BodyUnits ==
  { <<97, Newline>>, <<97, Space, 97, Newline>>, <<97, Newline, Newline>>,
    <<97, Space>> }

\* unit, n times over
Repeat(unit, n) == [i \in 1..(n * Len(unit)) |-> unit[((i - 1) % Len(unit)) + 1]]

\* "Para one.\n\nPara two."
TwoParagraphs ==
  <<80, 97, 114, 97, 32, 111, 110, 101, 46, 10, 10,
    80, 97, 114, 97, 32, 116, 119, 111, 46>>

Bodies ==
  StringsUpTo(BodyChars, MaxBodyLen)
    \cup {Repeat(u, n) : u \in BodyUnits, n \in 1..MaxRepeat}
    \cup {TwoParagraphs}

\* '', "a", "a a", and titles of four and of six words
ImageTitles ==
  {<<>>, <<97>>, <<97, Space, 97>>, <<97, Space, 97, Space, 97, Space, 97>>,
   <<97, Space, 97, Space, 97, Space, 97, Space, 97, Space, 97>>}

\* a card without a source name, and one with the source name "s"
SourceNames == {<<>>, <<115>>}

\* no type, a key of TYPE_COLORS, and two strings that are no keys of it
ImageTypes == {<<>>, TypeToolDrop, TypeBrief, TypeConstructor}

Cards ==
  [title : ImageTitles, body : Bodies, source_name : SourceNames, type : ImageTypes]

\* The contexts a canvas may give: none, or one with a character width
Contexts == Advances \cup {NullContext}

WrapChars == {97, Space, WideChar}

MaxTextLen == 5

Texts == StringsUpTo(WrapChars, MaxTextLen)

MaxWidths == {0, 100, 800, 2700}

InitImage ==
  /\ advance = 0
  /\ card = [title |-> <<>>, body |-> <<>>, source_name |-> <<>>, type |-> <<>>]
  /\ colors = TYPE_COLORS[TypeQuickBite]
  /\ imgError = ""
  /\ imgPc = "idle"
  /\ titleLines = <<>>
  /\ bodyLines = <<>>
  /\ visibleBodyLines = <<>>
  /\ bodyY = -1
  /\ contentY = 0
  /\ cardHeight = -1
  /\ painted = <<>>
  /\ ops = <<>>

InitWrap ==
  /\ text = <<>>
  /\ maxWidth = 0
  /\ wrapPc = "idle"
  /\ word = 1
  /\ lines = <<>>
  /\ currentLine = <<>>

(* shareCardImage *)

MaxInFlight == 2

\* 'ai-for-grandmas-card.png', the name of the File handed to navigator.share
ShareFileName == <<97, 105, 45, 102, 111, 114, 45, 103, 114, 97, 110, 100, 109, 97, 115, 45, 99, 97, 114, 100, 46, 112, 110, 103>>

\* 'ai-for-grandmas-'
DownloadPrefix == <<97, 105, 45, 102, 111, 114, 45, 103, 114, 97, 110, 100, 109, 97, 115, 45>>

\* 'card'
TypeCard == <<99, 97, 114, 100>>

\* '.png'
PngSuffix == <<46, 112, 110, 103>>

\* line 510: 'ai-for-grandmas-' + (card.type || 'card') + '.png'
DownloadName(c) ==
  DownloadPrefix \o (IF c.type # <<>> THEN c.type ELSE TypeCard) \o PngSuffix

\* What canvas.toDataURL returns: the image, as what was painted into it
DataUrl ==
  [colors |-> colors, title |-> titleLines, body |-> painted,
   cardHeight |-> cardHeight, source |-> card.source_name]

\* What a platform may offer: navigator.share or not, and navigator.canShare
\* missing, accepting the file or turning it down
Navigators == [share : BOOLEAN, canShare : {"absent", "accepts", "rejects"}]

\* navigator.share alone deciding
CanNativeShareUnchecked(nav) == nav.share

\* line 494: navigator.share && navigator.canShare
\*             && navigator.canShare({ files: [file] })
CanNativeShare(nav) == nav.share /\ nav.canShare = "accepts"

\* The errors navigator.share may reject with
ShareErrors == {"AbortError", "NotAllowedError", "DataError"}

\* a catch block that returns for no error
AfterRejectionNeverReturns(e) == "fallback"

\* lines 502-504: catch (e) { if (e.name === 'AbortError') return; }, after
\* which control falls out of the if to the fallback
AfterRejection(e) == IF e = "AbortError" THEN "return" ELSE "fallback"

\* an error of generate caught and dropped
RejectionSwallowed(e) == [pc |-> "fetch", error |-> ""]

\* line 486: await generate(card) throwing e, which nothing catches
Rejection(e) == [pc |-> "rejected", error |-> e]

\* the image of whichever generate call painted last
LatestDataUrl(i) == <<DataUrl>>

\* const dataUrl of invocation i
OwnDataUrl(i) == shares[i].dataUrl

\* An invocation that has not begun
NotStarted ==
  [pc |-> "idle", kind |-> "", card |-> <<>>, ctx |-> -1, dataUrl |-> <<>>,
   file |-> <<>>, nav |-> <<>>, shareError |-> "", error |-> "", sinks |-> <<>>]

\* A generate call is on the stack: scripts run one at a time, and to the
\* next await
Running ==
  \/ \E j \in DOMAIN shares : shares[j].pc = "generating"
  \/ artPc \in {"layer1", "layer2", "closing"}

\* lines 485-486: shareCardImage(card) is called and calls generate(card)
ShareCardImage(i, c, ctx) ==
  /\ shares[i].pc = "idle"
  /\ ~Running
  /\ Generate(c, ctx)
  /\ shares' = [shares EXCEPT ![i] =
                  [NotStarted EXCEPT !.pc = "generating", !.kind = "share", !.card = c,
                                     !.ctx = ctx]]

\* CardImage.generate(card) called by another caller than shareCardImage
GenerateCalled(i, c, ctx) ==
  /\ shares[i].pc = "idle"
  /\ ~Running
  /\ Generate(c, ctx)
  /\ shares' = [shares EXCEPT ![i] =
                  [NotStarted EXCEPT !.pc = "generating", !.kind = "generate",
                                     !.card = c, !.ctx = ctx]]

\* line 478: generate returns; its promise holds the data URL
GenerateReturns(i) ==
  /\ shares[i].pc = "generating"
  /\ imgPc = "done"
  /\ shares' = [shares EXCEPT ![i].dataUrl = <<DataUrl>>,
                              ![i].pc = IF shares[i].kind = "share" THEN "fetch"
                                        ELSE "returned"]
  /\ UNCHANGED <<artVars, appVars, sw, boot, advance, imgVars, wrapVars>>

\* generate threw: its promise is rejected, and so is that of an awaiting
\* shareCardImage
GenerateThrows(i) ==
  /\ shares[i].pc = "generating"
  /\ imgPc = "threw"
  /\ shares' = [shares EXCEPT ![i].pc = Rejection(imgError).pc,
                              ![i].error = Rejection(imgError).error]
  /\ UNCHANGED <<artVars, appVars, sw, boot, advance, imgVars, wrapVars>>

\* lines 486-489: await generate(card) resumes with the data URL, which is
\* fetched
ShareFetch(i) ==
  /\ shares[i].pc = "fetch"
  /\ ~Running
  /\ shares' = [shares EXCEPT ![i].pc = "blob"]
  /\ UNCHANGED <<artVars, appVars, sw, boot, advance, imgVars, wrapVars>>

\* A delivery: what was handed to which sink under which name
Delivery(kind, name, image) == [kind |-> kind, name |-> name, image |-> image]

\* lines 507-513: the image is downloaded through a link
Download(i) ==
  Delivery("download", DownloadName(shares[i].card), OwnDataUrl(i))

\* lines 489-501 and 507-513: the blob arrives and becomes a file; native
\* share is called with it if the platform nav can take it, otherwise the
\* image is downloaded
ShareBlob(i, nav) ==
  /\ shares[i].pc = "blob"
  /\ ~Running
  /\ LET file == [name |-> ShareFileName, image |-> OwnDataUrl(i)]
     IN  shares' = [shares EXCEPT
           ![i].file = <<file>>,
           ![i].nav = <<nav>>,
           ![i].pc = IF CanNativeShare(nav) THEN "sharing" ELSE "returned",
           ![i].sinks = IF CanNativeShare(nav)
                          THEN <<Delivery("share", file.name, file.image)>>
                          ELSE <<Download(i)>>]
  /\ UNCHANGED <<artVars, appVars, sw, boot, advance, imgVars, wrapVars>>

\* lines 496-501: navigator.share resolves; return
ShareResolves(i) ==
  /\ shares[i].pc = "sharing"
  /\ ~Running
  /\ shares' = [shares EXCEPT ![i].pc = "returned"]
  /\ UNCHANGED <<artVars, appVars, sw, boot, advance, imgVars, wrapVars>>

\* lines 502-513: navigator.share rejects with the error e
ShareRejects(i, e) ==
  /\ shares[i].pc = "sharing"
  /\ ~Running
  /\ shares' = [shares EXCEPT
        ![i].pc = "returned",
        ![i].shareError = e,
        ![i].sinks = IF AfterRejection(e) = "return" THEN @
                     ELSE Append(@, Download(i))]
  /\ UNCHANGED <<artVars, appVars, sw, boot, advance, imgVars, wrapVars>>

InitShare == shares = [i \in 1..MaxInFlight |-> NotStarted]

----------------------------------------------------------------------------
(* Local storage and loadCards *)

\* A value that may be missing: <<>> for undefined, <<v>> for v
None == <<>>

Some(v) == <<v>>

\* No item under the key: nothing to read, and setItem works
NoItem == [readable |-> FALSE, writable |-> TRUE, cachedCards |-> None,
           streak |-> None, lastVisit |-> None]

\* function getData(): the parsed item, or {} when there is none, when it
\* does not parse or when reading throws
GetData(st) ==
  IF st.readable THEN st
  ELSE [st EXCEPT !.cachedCards = None, !.streak = None, !.lastVisit = None]

\* function setData({cachedCards: data}): the item after it.  setItem
\* throws where storage cannot be written.
SetCachedCards(st, data) ==
  IF st.writable
    THEN [threw |-> FALSE,
          storage |-> [GetData(st) EXCEPT !.readable = TRUE, !.cachedCards = Some(data)]]
    ELSE [threw |-> TRUE, storage |-> st]

\* The ids of the cards of getDemoCards()
DemoCards ==
  <<"holy-shit-demo", "quick-bite-1", "tool-drop-demo", "try-this-demo", "cookie-demo">>

\* lines 369-371: if (!cards || cards.length === 0) cards = getDemoCards()
FallbackToDemo(cards) ==
  IF cards = None \/ cards[1] = <<>> THEN DemoCards ELSE cards[1]

\* lines 359-366: if (!cards) the stored deck is taken, if there is a
\* cachedCards with cards; an empty array is neither
FallbackToCache(cards, st) ==
  IF cards = None
    THEN LET stored == GetData(st)
         IN  IF stored.cachedCards # None /\ stored.cachedCards[1].cards # None
               THEN [cards |-> stored.cachedCards[1].cards, fromCache |-> TRUE]
               ELSE [cards |-> None, fromCache |-> FALSE]
    ELSE [cards |-> cards, fromCache |-> FALSE]

\* No call of loadCards yet
NotLoading ==
  [pc |-> "idle", file |-> "", isOffline |-> FALSE, network |-> None,
   storedAtCall |-> None, unreachable |-> FALSE, result |-> None]

\* lines 359-378, which follow the try block without an await: both
\* fallbacks and the return, for cards as the try block left it and the
\* storage st as it is then.  www sets isOffline in the catch block and
\* when it takes the stored deck.
LoadReturns(cards, caught, st) ==
  LET cached == FallbackToCache(cards, st)
  IN  [load EXCEPT
        !.pc = "resolved",
        !.isOffline = load.file = "www" /\ (caught \/ cached.fromCache),
        !.network = cards,
        !.result = Some(FallbackToDemo(cached.cards))]

\* lines 342-347 of src/www/app.js: loadCards() is called and awaits
\* fetch(DATA_URL).  Who answers the request is for the caller to say.
LoadCards(file) ==
  /\ load.pc \in {"idle", "resolved"}
  /\ load' = [NotLoading EXCEPT
                !.pc = "fetch", !.file = file,
                !.storedAtCall = IF GetData(storage).cachedCards # None
                                   THEN GetData(storage).cachedCards[1].cards
                                   ELSE None]
  /\ UNCHANGED <<artVars, advance, imgVars, wrapVars, shares, storage, clock,
                 streakCall, visits>>

\* fetch rejects: the catch block, then the fallbacks
FetchRejects ==
  /\ load.pc = "fetch"
  /\ load' = [LoadReturns(None, TRUE, storage) EXCEPT !.unreachable = TRUE]
  /\ UNCHANGED <<artVars, advance, imgVars, wrapVars, shares, storage, clock,
                 streakCall, visits>>

\* fetch resolves with a response: response.ok sends the call to
\* response.json(), anything else to the fallbacks
FetchResolves(ok) ==
  /\ load.pc = "fetch"
  /\ load' = IF ok THEN [load EXCEPT !.pc = "json"]
                   ELSE LoadReturns(None, FALSE, storage)
  /\ UNCHANGED <<artVars, advance, imgVars, wrapVars, shares, storage, clock,
                 streakCall, visits>>

\* The bodies a response may have: one that is no JSON, null, or an object
\* data, with cards or without
Bodies200(decks) ==
  [kind : {"unparsable", "null"}, cards : {None}]
    \cup [kind : {"object"}, cards : {None} \cup {Some(d) : d \in decks}]

\* lines 349-356: response.json() settles.  It rejects for a body that is
\* no JSON, data.cards throws for null, and setData may throw after cards
\* was assigned: each ends in the catch block.
JsonSettles(body) ==
  /\ load.pc = "json"
  /\ IF body.kind # "object"
       THEN /\ storage' = storage
            /\ load' = LoadReturns(None, TRUE, storage)
       ELSE LET set == SetCachedCards(storage, [cards |-> body.cards])
            IN  /\ storage' = set.storage
                /\ load' = LoadReturns(body.cards, set.threw, set.storage)
  /\ UNCHANGED <<artVars, advance, imgVars, wrapVars, shares, clock, streakCall,
                 visits>>

(* The service worker *)

\* A response: response.ok and the body response.json() is to read
Response(ok, body) == [ok |-> ok, body |-> body]

\* part_001 262-265: new Response('{"cards":[]}', {status: 200})
EmptyDeckResponse == Response(TRUE, [kind |-> "object", cards |-> Some(<<>>)])

\* part_001 259-265, the catch block of networkFirst: the cached response
\* if there is one, else a response made up on the spot
NetworkFirstOffline(cache) ==
  IF cache # None THEN cache ELSE Some(EmptyDeckResponse)

\* No service worker controls the page
NoWorker == [controls |-> FALSE, cache |-> None, response |-> None]

\* part_001 147-156: a service worker is activated: the caches of other
\* names are deleted, CACHE_NAME is new, and the pages are claimed
SwActivate ==
  /\ load.pc \in {"idle", "resolved"}
  /\ sw' = [controls |-> TRUE, cache |-> None, response |-> None]
  /\ UNCHANGED <<artVars, advance, imgVars, wrapVars, shares, appVars, boot>>

\* part_001 251-258: networkFirst(request) with the network answering:
\* an ok response is put into the cache, and any response is returned
NetworkFirst(response) ==
  /\ load.pc = "fetch"
  /\ sw.controls
  /\ sw.response = None
  /\ sw' = [sw EXCEPT !.cache = IF response.ok THEN Some(response) ELSE @,
                      !.response = Some(response)]
  /\ UNCHANGED <<artVars, advance, imgVars, wrapVars, shares, appVars, boot>>

\* part_001 259-265: networkFirst(request) with fetch rejecting.  The page
\* never learns of it where the worker answers in the network's place.
NetworkFirstCatch ==
  /\ load.pc = "fetch"
  /\ sw.controls
  /\ sw.response = None
  /\ sw' = [sw EXCEPT !.response = NetworkFirstOffline(sw.cache)]
  /\ load' = [load EXCEPT !.unreachable = TRUE]
  /\ UNCHANGED <<artVars, advance, imgVars, wrapVars, shares, storage, clock,
                 streakCall, visits, boot>>

\* Local storage as another tab of the application, a cleared site or a
\* browser without storage leaves it
StorageBecomes(st) ==
  /\ load.pc \in {"idle", "resolved"}
  /\ storage' = st
  /\ UNCHANGED <<artVars, advance, imgVars, wrapVars, shares, load, clock,
                 streakCall, visits, sw, boot>>

(* updateStreak *)

\* The ticks of a day: 86400000 ms
TicksPerDay == 2

MaxDays == 4

\* new Date(ms).toISOString().slice(0, 10): the UTC day of an instant, as
\* the number of the day
IsoDay(ticks) == ticks \div TicksPerDay

\* function setData({lastVisit: today, streak: streak}): the item after it
SetStreak(st, today, n) ==
  IF st.writable
    THEN [threw |-> FALSE,
          storage |-> [GetData(st) EXCEPT !.readable = TRUE,
                                          !.lastVisit = Some(today),
                                          !.streak = Some(n)]]
    ELSE [threw |-> TRUE, storage |-> st]

\* data.streak || 1
StreakOrOne(data) ==
  IF data.streak = None \/ data.streak[1] = 0 THEN 1 ELSE data.streak[1]

\* No call of updateStreak yet
NoStreakCall ==
  [pc |-> "idle", data |-> NoItem, today |-> -1, readAt |-> -1, result |-> None]

\* lines 103-108: const data, const today; the call returns if the last
\* visit was today
UpdateStreak ==
  /\ streakCall.pc \in {"idle", "returned", "threw"}
  /\ LET data  == GetData(storage)
         today == IsoDay(clock)
     IN  /\ streakCall' =
              IF data.lastVisit = Some(today)
                THEN [pc |-> "returned", data |-> data, today |-> today,
                      readAt |-> clock, result |-> Some(StreakOrOne(data))]
                ELSE [pc |-> "yesterday", data |-> data, today |-> today,
                      readAt |-> clock, result |-> None]
         /\ visits' = visits \cup {today}
  /\ UNCHANGED <<artVars, advance, imgVars, wrapVars, shares, storage, load, clock,
                 sw>>

\* lines 110-119: const yesterday, from a second reading of the clock; the
\* streak goes on if the last visit was then, and is stored
UpdateStreakStores ==
  /\ streakCall.pc = "yesterday"
  /\ LET yesterday == IsoDay(clock - TicksPerDay)
         streak    == IF streakCall.data.lastVisit = Some(yesterday)
                        THEN StreakOrOne(streakCall.data) + 1
                        ELSE 1
         set       == SetStreak(storage, streakCall.today, streak)
     IN  /\ storage' = set.storage
         /\ streakCall' = [streakCall EXCEPT
                             !.pc = IF set.threw THEN "threw" ELSE "returned",
                             !.result = IF set.threw THEN None ELSE Some(streak)]
  /\ UNCHANGED <<artVars, advance, imgVars, wrapVars, shares, load, clock, visits,
                 sw>>

\* Time passes; while a call runs, no further than the next tick
Tick ==
  /\ clock < MaxDays * TicksPerDay
  /\ streakCall.pc = "yesterday" => clock = streakCall.readAt
  /\ clock' = clock + 1
  /\ UNCHANGED <<artVars, advance, imgVars, wrapVars, shares, storage, load,
                 streakCall, visits, sw, boot>>

(* init *)

\* Before init() runs: the loading screen is shown
NotBooted ==
  [pc |-> "idle", file |-> "", swiper |-> TRUE, caught |-> FALSE,
   hidden |-> FALSE]

\* the catch block of init and the statement after it: the error is logged
\* and setTimeout(..., 400) is called
Caught == [boot EXCEPT !.pc = "timer", !.caught = TRUE]

\* www 432-439, part_000 304-307: the page is loaded (the loading screen
\* is in the markup, shown) and init() runs to the first reading of the
\* clock in updateStreak.  www calls incrementVisitCount before, whose
\* setData throws where the storage cannot be written.  Whether the
\* script of Swiper has been loaded is settled by now.
BootInit(file, swiper) ==
  /\ boot.pc \in {"idle", "done"}
  /\ LET booted == [pc |-> "streak", file |-> file, swiper |-> swiper,
                    caught |-> FALSE, hidden |-> FALSE]
     IN  IF file = "www" /\ ~storage.writable
           THEN /\ boot' = [booted EXCEPT !.pc = "timer", !.caught = TRUE]
                /\ UNCHANGED <<artVars, advance, imgVars, wrapVars, shares,
                               appVars, sw>>
           ELSE /\ UpdateStreak
                /\ boot' = [booted EXCEPT
                             !.pc = IF streakCall'.pc = "returned" THEN "load"
                                                                  ELSE "streak"]

\* updateStreak goes on from its second reading of the clock; where its
\* setData throws, init is in its catch block
BootStreak ==
  /\ boot.pc = "streak"
  /\ UpdateStreakStores
  /\ boot' = IF streakCall'.pc = "threw" THEN Caught
                                         ELSE [boot EXCEPT !.pc = "load"]

\* www 440-445, part_000 308-312: showStreak, checkFirstVisit, whose
\* setData({hasVisited: true}) throws where data.hasVisited is not set
\* and the storage cannot be written, and await loadCards()
BootLoads(hasVisited) ==
  /\ boot.pc = "load"
  /\ IF ~hasVisited /\ ~storage.writable
       THEN /\ boot' = Caught
            /\ UNCHANGED <<artVars, advance, imgVars, wrapVars, shares,
                           appVars, sw>>
       ELSE /\ LoadCards(boot.file)
            /\ boot' = [boot EXCEPT !.pc = "await"]
            /\ UNCHANGED sw

\* www 446-509, part_000 313-361: loadCards has resolved and init goes on:
\* the slides are built and new Swiper(...) is called, which throws a
\* ReferenceError where the script of Swiper was not loaded; either way
\* setTimeout(..., 400) is called after the try statement
BootRenders ==
  /\ boot.pc = "await"
  /\ load.pc = "resolved"
  /\ boot' = IF boot.swiper THEN [boot EXCEPT !.pc = "timer"] ELSE Caught
  /\ UNCHANGED <<artVars, advance, imgVars, wrapVars, shares, appVars, sw>>

\* www 506-508, part_000 359-361: the timer fires:
\* loadingScreen.classList.add('hidden')
LoadingTimerFires ==
  /\ boot.pc = "timer"
  /\ boot' = [boot EXCEPT !.pc = "done", !.hidden = TRUE]
  /\ UNCHANGED <<artVars, advance, imgVars, wrapVars, shares, appVars, sw>>

InitApp ==
  /\ storage = NoItem
  /\ load = NotLoading
  /\ clock = 0
  /\ streakCall = NoStreakCall
  /\ visits = {}
  /\ sw = NoWorker
  /\ boot = NotBooted

----------------------------------------------------------------------------
(* Specifications *)

Init == InitArt /\ InitImage /\ InitWrap /\ InitShare /\ InitApp

Next ==
  \/ artPc \in {"idle", "done", "threw"} /\ \E t \in Titles, y \in Types :
       Call(t, y) /\ UNCHANGED deck
  \/ Layer1
  \/ Layer2
  \/ Return

\* Calls of CardArt.generate, one after the other, for any titles and types
Spec == Init /\ [][Next]_vars

MaxCalls == 3

MaxCallTitleLen == 1

CallTitles == StringsUpTo({97}, MaxCallTitleLen)

CallTypes == {TypeOmitted, TypeQuickBite}

NextCalls ==
  \/ Len(results) < MaxCalls /\ \E t \in CallTitles, y \in CallTypes :
       Call(t, y) /\ UNCHANGED deck
  \/ Layer1
  \/ Layer2
  \/ ReturnObserved

\* A caller making up to MaxCalls calls and keeping every result
SpecCalls == Init /\ [][NextCalls]_vars

NextImage ==
  \/ imgPc = "idle" /\ \E c \in Cards, ctx \in Contexts :
       Generate(c, ctx) /\ UNCHANGED shares
  \/ imgPc = "body" /\ \E ctx \in Advances : BodyLayout(ctx)
  \/ Truncate
  \/ Paint
  \/ PaintThrows

\* Calls of CardImage.generate, one after the other, for any cards
SpecImage == Init /\ [][NextImage]_vars

NextWrap ==
  \/ wrapPc = "idle" /\ \E ctx \in Advances, t \in Texts, m \in MaxWidths : WrapCall(ctx, t, m)
  \/ WrapForEach
  \/ WrapReturn

\* Calls of wrapText, one after the other, for any texts and widths
SpecWrap == Init /\ [][NextWrap]_vars

\* "a", "a'", "a&" and "a\"
SlideTitles ==
  {<<>>, <<97>>, <<97, Apostrophe>>, <<97, Ampersand>>, <<97, Backslash>>}

SlideCards ==
  [title : SlideTitles \cup {Missing}, type : {Missing, TypeQuickBite, TypeToolDrop}]

NextSlides ==
  \/ \E file \in {"www", "app"}, c \in SlideCards : RenderDeck(file, c)
  \/ BuildCardSlideImage
  \/ BuildCardSlideArt
  \/ Layer1
  \/ Layer2
  \/ Return
  \/ SlideArt
  \/ \E k \in 1..2 : ImageError(k)
  \/ ErrorArt

\* A deck of two cards is rendered by either version of buildCardSlide,
\* and the image of the one with image_url fails to load
SpecSlides == Init /\ [][NextSlides]_vars

\* The cards shared: with and without a type, and with a type that
\* TYPE_COLORS inherits
ShareCards ==
  {c \in Cards : /\ c.title = <<97>>
                 /\ c.body = <<97>>
                 /\ c.source_name = <<>>
                 /\ c.type \in {<<>>, TypeToolDrop, TypeConstructor}}

\* The contexts of the canvases made while sharing
ShareContexts == {30, NullContext}

NextShare ==
  \/ \E i \in DOMAIN shares :
       shares[i].pc = "idle" /\ \E c \in ShareCards, ctx \in ShareContexts :
         ShareCardImage(i, c, ctx)
  \/ \E i \in DOMAIN shares :
       shares[i].pc = "idle" /\ \E c \in ShareCards, ctx \in ShareContexts :
         GenerateCalled(i, c, ctx)
  \/ BodyLayout(advance)
  \/ Truncate
  \/ Paint
  \/ PaintThrows
  \/ \E i \in DOMAIN shares : GenerateReturns(i)
  \/ \E i \in DOMAIN shares : GenerateThrows(i)
  \/ \E i \in DOMAIN shares : ShareFetch(i)
  \/ \E i \in DOMAIN shares, nav \in Navigators : ShareBlob(i, nav)
  \/ \E i \in DOMAIN shares : ShareResolves(i)
  \/ \E i \in DOMAIN shares, e \in ShareErrors : ShareRejects(i, e)

\* Up to MaxInFlight invocations of shareCardImage and CardImage.generate,
\* each running to its next await while the others wait at theirs
SpecShare == Init /\ [][NextShare]_vars

\* The cards in flight together: one without a type and one with
InFlightCards == {c \in ShareCards : c.type \in {<<>>, TypeToolDrop}}

\* The platforms in flight: one that shares natively and one that does not
InFlightNavigators ==
  {nav \in Navigators : nav.share = (nav.canShare = "accepts") /\ nav.canShare # "rejects"}

\* The art made in between: of 'QHLMVld' without a type, which has two
\* layers and few shapes
InFlightArt == {<<81, 72, 76, 77, 86, 108, 100>>} \X {TypeOmitted}

NextInFlight ==
  \/ ~Running /\ artPc = "idle" /\ \E a \in InFlightArt :
       Call(a[1], a[2]) /\ UNCHANGED deck
  \/ Layer1
  \/ Layer2
  \/ Return
  \/ \E i \in DOMAIN shares :
       shares[i].pc = "idle" /\ \E c \in InFlightCards, ctx \in ShareContexts :
         ShareCardImage(i, c, ctx)
  \/ \E i \in DOMAIN shares :
       shares[i].pc = "idle" /\ \E c \in InFlightCards : GenerateCalled(i, c, 30)
  \/ BodyLayout(advance)
  \/ Truncate
  \/ Paint
  \/ \E i \in DOMAIN shares : GenerateReturns(i)
  \/ \E i \in DOMAIN shares : GenerateThrows(i)
  \/ \E i \in DOMAIN shares : ShareFetch(i)
  \/ \E i \in DOMAIN shares, nav \in InFlightNavigators : ShareBlob(i, nav)
  \/ \E i \in DOMAIN shares : ShareResolves(i)
  \/ \E i \in DOMAIN shares : ShareRejects(i, "NotAllowedError")

\* Invocations of CardArt.generate, CardImage.generate and shareCardImage
\* in flight together: each runs to its return or its next await, and then
\* any of them may go on
SpecInFlight == Init /\ [][NextInFlight]_vars

\* The decks a response or the stored item may hold: none, one card, two
Decks == {<<>>, <<"a">>, <<"a", "b">>}

\* What local storage may hold under the key
Storages ==
  [readable : BOOLEAN, writable : BOOLEAN,
   cachedCards : {None} \cup {Some(d) : d \in [cards : {None} \cup {Some(d) : d \in Decks}]},
   streak : {None}, lastVisit : {None}]

NextLoad ==
  \/ load.pc \in {"idle", "resolved"} /\ \E st \in Storages : StorageBecomes(st)
  \/ \E file \in {"www", "app"} : LoadCards(file) /\ UNCHANGED <<sw, boot>>
  \/ FetchRejects /\ UNCHANGED <<sw, boot>>
  \/ \E ok \in BOOLEAN : FetchResolves(ok) /\ UNCHANGED <<sw, boot>>
  \/ load.pc = "json" /\ \E body \in Bodies200(Decks) :
       JsonSettles(body) /\ UNCHANGED <<sw, boot>>

\* loadCards is called again and again, with local storage in any state
\* and the network answering in any way
SpecLoad == Init /\ [][NextLoad]_vars

\* What the network may answer: ok or not, with any body
Responses == {Response(ok, body) : ok \in BOOLEAN, body \in Bodies200(Decks)}

NextWorker ==
  \/ SwActivate
  \/ \E file \in {"www", "app"} : LoadCards(file) /\ UNCHANGED <<sw, boot>>
  \/ ~sw.controls /\ FetchRejects /\ UNCHANGED <<sw, boot>>
  \/ ~sw.controls /\ load.pc = "fetch" /\ \E r \in Responses :
       /\ FetchResolves(r.ok)
       /\ sw' = [sw EXCEPT !.response = IF r.ok THEN Some(r) ELSE None]
       /\ UNCHANGED boot
  \/ load.pc = "fetch" /\ \E r \in Responses : NetworkFirst(r)
  \/ NetworkFirstCatch
  \/ /\ sw.controls
     /\ sw.response # None
     /\ FetchResolves(sw.response[1].ok)
     /\ sw' = [sw EXCEPT !.response = IF sw.response[1].ok THEN @ ELSE None]
     /\ UNCHANGED boot
  \/ /\ load.pc = "json"
     /\ sw.response # None
     /\ JsonSettles(sw.response[1].body)
     /\ sw' = [sw EXCEPT !.response = None]
     /\ UNCHANGED boot

\* loadCards is called again and again, first without a service worker and
\* with one from its activation on, the network answering or failing
SpecWorker == Init /\ [][NextWorker]_vars

NextStreak ==
  \/ UpdateStreak /\ UNCHANGED boot
  \/ UpdateStreakStores /\ UNCHANGED boot
  \/ Tick

\* What the network does with the request of loadCards, when it does
\* anything
NetworkSettles ==
  \/ FetchRejects /\ UNCHANGED <<sw, boot>>
  \/ \E ok \in BOOLEAN : FetchResolves(ok) /\ UNCHANGED <<sw, boot>>
  \/ load.pc = "json" /\ \E body \in Bodies200(Decks) :
       JsonSettles(body) /\ UNCHANGED <<sw, boot>>

NextBoot ==
  \/ boot.pc = "idle" /\ \E st \in Storages : StorageBecomes(st)
  \/ boot.pc \in {"idle", "streak"} /\ Tick
  \/ \E file \in {"www", "app"}, swiper \in BOOLEAN : BootInit(file, swiper)
  \/ BootStreak
  \/ \E hasVisited \in BOOLEAN : BootLoads(hasVisited)
  \/ NetworkSettles
  \/ BootRenders
  \/ LoadingTimerFires

\* The page is loaded at any time, with anything in local storage, and
\* loaded again when init is through.  The steps of init and its timer
\* are taken when they can be: the event loop runs them.  Nothing makes
\* the network settle the request: fetch is called without a signal, and
\* the code sets no timeout of its own.
SpecBoot ==
  /\ Init /\ [][NextBoot]_vars
  /\ WF_vars(BootStreak)
  /\ WF_vars(\E hasVisited \in BOOLEAN : BootLoads(hasVisited))
  /\ WF_vars(BootRenders)
  /\ WF_vars(LoadingTimerFires)

\* updateStreak is called on any days, as time passes
SpecStreak == Init /\ [][NextStreak]_vars

----------------------------------------------------------------------------
(* Properties of CardArt *)

\* The seed modulo a small n, from its limbs
SeedMod(n) == ((seed.hi % n) * (Limb % n) + seed.lo) % n

\* Every value the running call has taken from its stream, in order
RECURSIVE Flatten(_, _)
Flatten(log, n) ==
  IF n = 0 THEN <<>> ELSE Flatten(log, n - 1) \o log[n].draws

AllDraws == Flatten(drawLog, Len(drawLog))

\* The log entries of the pattern functions (after useTwo and gradAngle)
LayerEntries == {i \in 1..Len(drawLog) : drawLog[i].by \in {PATTERNS[k] : k \in 1..Len(PATTERNS)}}

\* The elements a log entry appended to the markup
RECURSIVE ShapesBefore(_)
ShapesBefore(i) == IF i = 0 THEN 0 ELSE ShapesBefore(i - 1) + drawLog[i].n

ShapesOf(i) == SubSeq(svg, ShapesBefore(i - 1) + 1, ShapesBefore(i))

SameInput(a, b) == a.title = b.title /\ a.type = b.type

\* C1: any two calls of CardArt.generate with the same title and type return
\* the identical markup, whatever calls ran before or between them
C1_SameInputSameMarkup ==
  \A i, j \in 1..Len(results) :
    SameInput(results[i], results[j]) => results[i].svg = results[j].svg

\* Three calls returned, the first and the third for the same title and type
\* and the second for another
C1_Witness ==
  /\ Len(results) = 3
  /\ SameInput(results[1], results[3])
  /\ ~SameInput(results[1], results[2])

\* C2: every value drawn from the stream is >= 0 and < 1, that is, the
\* generator state is within 1..2147483646 after every step
C2_DrawsInUnitInterval ==
  \A k \in 1..Len(AllDraws) : AllDraws[k] >= 1 /\ AllDraws[k] <= RandDivisor

\* The documented range of the primitive count of a pattern kind
CountInRange(i) ==
  LET by == drawLog[i].by
      n  == drawLog[i].n
      sh == ShapesOf(i)
  IN  CASE by = "blobPattern" -> n >= 3 /\ n <= 5
        [] by = "geoPattern"  -> n >= 4 /\ n <= 7
        [] by = "wavePattern" -> n >= 3 /\ n <= 6
        [] by = "arcPattern"  -> n >= 4 /\ n <= 7
        [] by = "layeredCirclePattern" ->
             LET groups == Cardinality({k \in 1..n : sh[k][5] = 0})
             IN  /\ groups >= 2 /\ groups <= 3
                 /\ \A k \in 1..n : sh[k][6] + 1 >= 4 /\ sh[k][6] + 1 <= 6
        [] OTHER -> TRUE

\* C3: each pattern kind emits a primitive count inside its fixed range
C3_CountsInRange == \A i \in LayerEntries : CountInRange(i)

\* (31 * h + c) wrapped to signed 32 bits
Wrap31(h, c) == ToInt32(31 * Hi(h), 31 * Lo(h) + c)

\* The values h_0, h_1, ..., h_n of the recurrence over str, as a sequence
RECURSIVE Recurrence(_, _)
Recurrence(str, n) ==
  IF n = 0 THEN <<0>>
  ELSE CHOOSE r \in {Append(hs, Wrap31(hs[n], str[n])) :
                       hs \in {Recurrence(str, n - 1)}} : TRUE

\* C4: hash(str) is the absolute value of h_n of the recurrence h_i = 31 *
\* h_(i-1) + charCode_i wrapped to signed 32 bits; the shift form gives the same
\* value as the recurrence at every step; the result is a non-negative integer
C4_HashIsRecurrence ==
  artPc # "idle" =>
    LET str == title \o type
        hs  == Recurrence(str, Len(str))
        hn  == hs[Len(str) + 1]
    IN  /\ \A i \in 1..Len(str) : HashStep(hs[i], str[i]) = Wrap31(hs[i], str[i])
        /\ ~seed.neg
        /\ seed.hi <= HalfLimb
        /\ seed.lo < Limb
        /\ IF hn >= 0 THEN ToInt32(seed.hi, seed.lo) = hn /\ seed.hi < HalfLimb
                      ELSE ToInt32(-seed.hi, -seed.lo) = hn

\* A call whose h_n is -2147483648, so that the seed is 2147483648
C4_Witness == artPc = "done" /\ seed.hi = HalfLimb /\ seed.lo = 0

\* C5: the first layer is PATTERNS[seed mod 6]; the second, PATTERNS[(seed + 3)
\* mod 6], follows it exactly when the first value of the stream is > 0.4; the
\* decision is drawn before any pattern draws, and a second layer that is not
\* used takes nothing from the stream
C5_LayerSelection ==
  artPc = "done" =>
    /\ drawLog[1].by = "useTwo"
    /\ drawLog[1].draws = <<LcgStep(SeededRandom(seed))>>
    /\ drawLog[2].by = "gradAngle"
    /\ \A k \in 2..Len(AllDraws) : AllDraws[k] = LcgStep(AllDraws[k - 1])
    /\ Len(drawLog) >= 3
    /\ drawLog[3].by = PATTERNS[SeedMod(6) + 1]
    /\ Len(drawLog) = IF RandGreater(AllDraws[1], 2, 5) THEN 4 ELSE 3
    /\ Len(drawLog) = 4 => drawLog[4].by = PATTERNS[((SeedMod(6) + 3) % 6) + 1]
    /\ s = AllDraws[Len(AllDraws)]

\* A finished call that layered two patterns
C5_Witness == artPc = "done" /\ useTwo /\ Len(drawLog) = 4

\* C6: the palette of a call is PALETTES[seed mod 8], one of the eight
\* five-colour palettes, never undefined
C6_PaletteOfSeed ==
  artPc # "idle" =>
    /\ palette = PALETTES[SeedMod(8) + 1]
    /\ Len(palette) = 5
    /\ ~seed.neg

\* A finished call that used the last palette
C6_Witness == artPc = "done" /\ palette = PALETTES[8]

\* The number of elements of the markup with a given tag and length
CountOf(tag, len) ==
  Cardinality({k \in 1..Len(svg) : svg[k][1] = tag /\ Len(svg[k]) = len})

\* C7: generate never throws, and the markup it returns is the opening svg
\* element, the gradient definition, the background rect, the output of one or
\* two patterns and the closing tag, in that order
C7_TotalAndWellFormed ==
  /\ artPc # "threw"
  /\ artPc = "done" =>
       /\ svg[1] = <<"svg", ViewW, ViewH>>
       /\ svg[2][1] = "linearGradient"
       /\ svg[3] = <<"rect", ViewW, ViewH, seed>>
       /\ svg[Len(svg)] = <<"/svg">>
       /\ CountOf("svg", 3) = 1
       /\ CountOf("linearGradient", 5) = 1
       /\ CountOf("rect", 4) = 1
       /\ CountOf("/svg", 1) = 1
       /\ Cardinality(LayerEntries) \in {1, 2}
       /\ LayerEntries = 3..Len(drawLog)
       /\ Len(svg) = ShapesBefore(Len(drawLog)) + 1
       /\ \A i \in LayerEntries : drawLog[i].n >= 1

\* A finished call with the empty title and the type left out
C7_Witness == artPc = "done" /\ title = <<>> /\ type = <<>>

----------------------------------------------------------------------------
(* Properties of CardImage *)

\* C8: for any text and any max width, every line wrapText returns measures
\* at most the max width, unless the line is a single word (it holds no
\* space) that is itself wider than the max width.
C8_LinesFitOrSingleWord ==
  wrapPc = "done" =>
    \A i \in 1..Len(lines) :
      \/ MeasureText(advance, lines[i]) <= maxWidth
      \/ /\ \A k \in 1..Len(lines[i]) : lines[i][k] # Space
         /\ lines[i] \in {Split(text, Space)[k] : k \in 1..Len(Split(text, Space))}
         /\ MeasureText(advance, lines[i]) > maxWidth

\* a call returned a word wider than the max width on a line of its own and
\* a line of more than one word
C8_Witness ==
  /\ wrapPc = "done"
  /\ \E i \in 1..Len(lines) : MeasureText(advance, lines[i]) > maxWidth
  /\ \E i \in 1..Len(lines) : \E k \in 1..Len(lines[i]) : lines[i][k] = Space

\* The paragraphs of body that are not empty, in their order
NonEmptyParagraphs(body) ==
  LET paras == Split(body, Newline)
  IN  Kept(paras, {i \in 1..Len(paras) : Trim(paras[i]) # <<>>})

\* The wrapped lines of the first n of paras, one blank marker between each
\* two consecutive paragraphs
RECURSIVE Separated(_, _, _)
Separated(ctx, paras, n) ==
  IF n = 0 THEN <<>>
  ELSE CHOOSE r \in {(IF n = 1 THEN <<>> ELSE before \o << <<>> >>)
                       \o WrapText(ctx, Trim(paras[n]), WrapWidth) :
                     before \in {Separated(ctx, paras, n - 1)}} : TRUE

\* C9: for any card body the body line sequence built by CardImage.generate
\* (before truncation) is the wrapped lines of the non-empty paragraphs in
\* their order, with exactly one blank marker between each two consecutive
\* non-empty paragraphs and none before the first or after the last.
C9_BodyLinesAreParagraphs ==
  imgPc \in {"truncate", "paint", "done"} =>
    bodyLines = Separated(advance, NonEmptyParagraphs(card.body),
                          Len(NonEmptyParagraphs(card.body)))

\* The entries of arr before entry i that are not blank markers
InkedBefore(arr, i) == Cardinality({j \in 1..(i - 1) : arr[j] # <<>>})

\* C10: when the body line sequence has more than 16 entries exactly the
\* first 16, in order, are rendered and the rest dropped; when it has 16 or
\* fewer all are kept; every rendered line that is not a blank marker is
\* painted at the position of its index, and no step of the call fails.
C10_FirstSixteenRendered ==
  LET n == IF Len(bodyLines) > 16 THEN 16 ELSE Len(bodyLines)
  IN  /\ imgPc = "truncate" => ENABLED Truncate
      /\ imgPc = "paint" => ENABLED Paint
      /\ imgPc \in {"paint", "done"} =>
           visibleBodyLines = [i \in 1..n |-> bodyLines[i]]
      /\ imgPc = "done" =>
           /\ Len(painted) = InkedBefore(bodyLines, n + 1)
           /\ \A i \in 1..n :
                bodyLines[i] # <<>> =>
                  painted[InkedBefore(bodyLines, i) + 1]
                    = <<bodyLines[i], PAD + CardPad, bodyY + i * BodyLineHeight>>

\* a call with more than 16 body lines has returned
C10_Witness ==
  /\ imgPc = "done"
  /\ Len(bodyLines) > 16
  /\ Len(visibleBodyLines) = 16
  /\ \E i \in 17..Len(bodyLines) : bodyLines[i] # <<>>

\* C11: the height of the card container is 298 + 72 * (title lines)
\* + 58 * (visible body lines) + 50 if a source name is present; it is not
\* set before the title, the body and the source line are laid out, and a
\* card with fewer visible body lines would not be higher.
C11_CardHeight ==
  /\ imgPc \in {"body", "truncate"} => cardHeight = -1
  /\ imgPc \in {"paint", "done"} =>
       /\ cardHeight = 298 + 72 * Len(titleLines) + 58 * Len(visibleBodyLines)
                         + (IF card.source_name # <<>> THEN 50 ELSE 0)
       /\ \A n \in 0..Len(visibleBodyLines) :
            298 + 72 * Len(titleLines) + 58 * n
              + (IF card.source_name # <<>> THEN 50 ELSE 0) <= cardHeight

\* a card with a source name, a wrapped title and a full body was laid out
C11_Witness ==
  /\ imgPc = "done"
  /\ card.source_name # <<>>
  /\ Len(titleLines) = 2
  /\ Len(visibleBodyLines) = 16

\* C12: for every card whose type is missing or is a string other than the
\* six keys of TYPE_COLORS, CardImage.generate uses the quick_bite profile,
\* with bg, accent, tagBg and tagText defined, and does not throw (a context
\* being given and the encoding working).
C12_UnknownTypeFallsBack ==
  (/\ imgPc # "idle"
   /\ card.type \notin {TypeHolyShit, TypeQuickBite, TypeToolDrop, TypeTryThis,
                        TypeBsDetector, TypeCookie}
   /\ advance # NullContext)
    => /\ colors = [bg |-> "#1a1708", accent |-> "#d97706",
                    tagBg |-> "#fef3c7", tagText |-> "#92400e"]
       /\ imgError \in {"", "SecurityError"}

----------------------------------------------------------------------------
(* Properties of shareCardImage *)

\* The deliveries of invocation i to the sink kind
Deliveries(i, kind) ==
  {k \in 1..Len(shares[i].sinks) : shares[i].sinks[k].kind = kind}

\* C13: when navigator.share is absent, or navigator.canShare is absent, or
\* canShare turns the file down, native share is never called, exactly one
\* download is triggered, and the operation returns without an exception.
C13_NoNativeShareDownloads ==
  \A i \in DOMAIN shares :
    (/\ shares[i].nav # <<>>
     /\ \/ ~shares[i].nav[1].share
        \/ shares[i].nav[1].canShare \in {"absent", "rejects"})
      => /\ Deliveries(i, "share") = {}
         /\ Cardinality(Deliveries(i, "download")) = 1
         /\ shares[i].pc = "returned"
         /\ shares[i].error = ""

\* a platform with navigator.share whose canShare turned the file down
C13_Witness ==
  \E i \in DOMAIN shares :
    /\ shares[i].pc = "returned"
    /\ shares[i].nav # <<>>
    /\ shares[i].nav[1].share
    /\ shares[i].nav[1].canShare = "rejects"
    /\ Len(shares[i].sinks) = 1

\* C14: when native share is attempted and rejects with AbortError, the
\* operation ends normally: no error reaches the caller and no download is
\* triggered afterwards.
C14_CancelEndsSilently ==
  \A i \in DOMAIN shares :
    shares[i].shareError = "AbortError"
      => /\ shares[i].pc = "returned"
         /\ shares[i].error = ""
         /\ Deliveries(i, "download") = {}
         /\ Cardinality(Deliveries(i, "share")) = 1

\* the user cancelled a native share
C14_Witness ==
  \E i \in DOMAIN shares :
    shares[i].shareError = "AbortError" /\ shares[i].pc = "returned"

\* C15: when the platform share call fails for a reason other than user
\* cancellation, that failure reaches the caller of shareCardImage and no
\* second delivery is attempted in its place.
C15_ShareFailurePropagates ==
  \A i \in DOMAIN shares :
    shares[i].shareError \notin {"", "AbortError"}
      => /\ shares[i].pc = "rejected"
         /\ shares[i].error = shares[i].shareError
         /\ Deliveries(i, "download") = {}

\* C16: if CardImage.generate throws (no canvas context, or toDataURL
\* throwing), shareCardImage fails towards its caller with that error, and
\* neither native share nor a download is triggered.  An invocation past
\* its generate call that holds no data URL is one whose generate threw.
C16_RenderFailurePropagates ==
  \A i \in DOMAIN shares :
    /\ (/\ shares[i].kind = "share"
        /\ shares[i].pc \notin {"idle", "generating"}
        /\ shares[i].dataUrl = <<>>)
         => /\ shares[i].pc = "rejected"
            /\ shares[i].error \in {"TypeError", "SyntaxError", "SecurityError"}
            /\ shares[i].sinks = <<>>
    /\ (shares[i].pc = "generating" /\ imgPc = "threw" /\ shares[i].kind = "share")
         => /\ imgError # ""
            /\ ENABLED GenerateThrows(i)
    /\ shares[i].pc = "rejected" => shares[i].dataUrl = <<>>

\* one shareCardImage failed for want of a context, another for toDataURL
C16_Witness ==
  \E i, j \in DOMAIN shares :
    /\ shares[i].kind = "share" /\ shares[i].pc = "rejected"
    /\ shares[i].error = "TypeError"
    /\ shares[j].kind = "share" /\ shares[j].pc = "rejected"
    /\ shares[j].error = "SecurityError"

\* C17: whenever shareCardImage hands the image to a sink, as the file
\* passed to native share or as the download, the filename it carries is
\* "ai-for-grandmas-" followed by the card's type and ".png".
C17_FilenameCarriesType ==
  \A i \in DOMAIN shares :
    shares[i].card # <<>> =>
      \A k \in 1..Len(shares[i].sinks) :
        shares[i].card.type # <<>> =>
          shares[i].sinks[k].name
            = DownloadPrefix \o shares[i].card.type \o PngSuffix

----------------------------------------------------------------------------
(* More properties of CardArt *)

\* Where the shapes of a pattern carry their fill or stroke colour
ColourAt(name) ==
  CASE name = "blobPattern"          -> 5
    [] name = "geoPattern"           -> 5
    [] name = "wavePattern"          -> 6
    [] name = "dotGridPattern"       -> 8
    [] name = "arcPattern"           -> 7
    [] name = "layeredCirclePattern" -> 7

\* C18: once the image of a card with image_url has failed to load and the
\* error handler of buildCardSlide has run, the art in the slide is the art
\* CardArt.generate(card.title, card.type) gives the same card without
\* image_url.
C18_ErrorArtIsCardArt ==
  deck.pc = "shown" => deck.slides[deck.failed].art = deck.slides[1].art

\* CardArt.generate(t, y) run alone, from the first line to the last
ArtAlone(t, y) ==
  LET sd   == Hash(t \o y)
      pal  == GetPalette(sd)
      d1   == LcgStep(SeededRandom(sd))
      d2   == LcgStep(d1)
      one  == CallPattern(At(PATTERNS, PatternIdx1(sd), "undefined"), d2, pal)
      two  == CallPattern(At(PATTERNS, PatternIdx2(sd), "undefined"),
                          Last(one.draws, d2), pal)
  IN  << <<"svg", ViewW, ViewH>>,
         <<"linearGradient", sd, FloorRand(d2, 360), pal[3], pal[4]>>,
         <<"rect", ViewW, ViewH, sd>> >>
        \o one.shapes
        \o (IF RandGreater(d1, 2, 5) THEN two.shapes ELSE <<>>)
        \o << <<"/svg">> >>

\* CardImage.generate(c) run alone on a canvas whose context is ctx: the
\* image it returns
ImageAlone(c, ctx) ==
  LET wrapped == WrapText(ctx, c.title, WrapWidth)
      y0      == CardTop + CardPad + TagH + 36 + Len(wrapped) * TitleLineHeight + 40
      visible == Slice(BodyLines(ctx, c.body), 0, MaxBodyLines)
      calls   == [i \in 1..Len(visible) |->
                    <<visible[i], PAD + CardPad, y0 + i * BodyLineHeight>>]
      y1      == y0 + Len(visible) * BodyLineHeight + 50
                   + SourceGap(c.source_name) + CardPad
  IN  [colors |-> Colors(c.type), title |-> wrapped,
       body |-> Kept(calls, {i \in 1..Len(calls) : visible[i] # <<>>}),
       cardHeight |-> y1 - CardTop, source |-> c.source_name]

\* What each CardArt.generate of the invocations in flight gives alone:
\* the pairs of arguments and markup
ArtsAlone == {<<a, ArtAlone(a[1], a[2])>> : a \in InFlightArt}

\* What each CardImage.generate of the invocations in flight gives alone,
\* on the one context that gives an image: the pairs of card and image
ImagesAlone == {<<c, ImageAlone(c, 30)>> : c \in InFlightCards}

\* C19: however the invocations in flight interleave, what each gives is
\* what it gives when run alone on its own card: the markup of
\* CardArt.generate, the image CardImage.generate returns, and the image
\* and the name shareCardImage hands to the share sheet or the download.
C19_ResultsAsAlone ==
  /\ artPc = "done" => <<<<title, type>>, svg>> \in ArtsAlone
  /\ \A i \in DOMAIN shares :
       LET inv          == shares[i]
           AsAlone(img) == Len(img) = 1 /\ <<inv.card, img[1]>> \in ImagesAlone
       IN  /\ inv.dataUrl # <<>> => inv.ctx = 30 /\ AsAlone(inv.dataUrl)
           /\ inv.file # <<>> => AsAlone(inv.file[1].image)
           /\ \A k \in 1..Len(inv.sinks) :
                /\ AsAlone(inv.sinks[k].image)
                /\ inv.sinks[k].kind = "download" =>
                     inv.sinks[k].name = DownloadName(inv.card)

\* Two invocations of shareCardImage with different cards wait at their
\* await of navigator.share while a CardArt.generate has returned, and one
\* more has downloaded nothing yet
C19_Witness ==
  /\ artPc = "done"
  /\ \E i, j \in DOMAIN shares :
       /\ i < j
       /\ shares[i].pc = "sharing"
       /\ shares[j].pc = "returned"
       /\ shares[j].kind = "share"
       /\ Len(shares[j].sinks) = 2
       /\ shares[i].card # shares[j].card
       /\ shares[i].file # shares[j].file

\* The place of a drawing call in the order of painting
Rank(what) ==
  CASE what = "background"     -> 0
    [] what = "glow"           -> 1
    [] what = "header"         -> 2
    [] what = "cardBackground" -> 3
    [] what = "accentBar"      -> 4
    [] what = "tagBackground"  -> 5
    [] what = "tagText"        -> 6
    [] what = "title"          -> 7
    [] what = "body"           -> 8
    [] what = "source"         -> 9
    [] what = "footer"         -> 10

\* The drawing calls of a kind
OpsOf(what) == {i \in 1..Len(ops) : ops[i].what = what}

\* C21: nothing inside the card is painted before the card height is
\* known; the card background is painted first, with that height, then the
\* accent bar, the tag pill and its text, one call per title line, the body
\* lines (a blank marker paints nothing and still takes its line), the
\* source line if the card has a source name, and the footer.
C21_PaintOrder ==
  /\ (\E i \in 1..Len(ops) : Rank(ops[i].what) >= 3) =>
       /\ cardHeight # -1
       /\ ops[4] = Op("cardBackground", cardHeight)
  /\ \A i \in 1..(Len(ops) - 1) :
       /\ Rank(ops[i].what) <= Rank(ops[i + 1].what)
       /\ Rank(ops[i].what) = Rank(ops[i + 1].what) =>
            /\ ops[i].what \in {"title", "body"}
            /\ ops[i].at < ops[i + 1].at
  /\ imgPc = "done" =>
       /\ \A what \in {"cardBackground", "accentBar", "tagBackground", "tagText",
                         "footer"} : Cardinality(OpsOf(what)) = 1
       /\ Cardinality(OpsOf("title")) = Len(titleLines)
       /\ Cardinality(OpsOf("source")) = IF card.source_name # <<>> THEN 1 ELSE 0
       /\ {ops[i].at : i \in OpsOf("body")}
            = {bodyY + i * BodyLineHeight :
                 i \in {j \in 1..Len(visibleBodyLines) : visibleBodyLines[j] # <<>>}}
       /\ Cardinality(OpsOf("body")) = Len(painted)

\* A card with a title, a source name and a body with a blank marker
\* between two painted lines has been painted
C21_Witness ==
  /\ imgPc = "done"
  /\ Len(titleLines) >= 1
  /\ card.source_name # <<>>
  /\ \E j \in 2..(Len(visibleBodyLines) - 1) :
       /\ visibleBodyLines[j] = <<>>
       /\ visibleBodyLines[j - 1] # <<>>
       /\ visibleBodyLines[j + 1] # <<>>

\* ls.join(' ')
RECURSIVE JoinSpace(_)
JoinSpace(ls) ==
  IF ls = <<>> THEN <<>>
  ELSE IF Len(ls) = 1 THEN ls[1]
  ELSE ls[1] \o <<Space>> \o JoinSpace(Tail(ls))

\* str is one or more non-empty words with single spaces between them
SingleSpaced(str) ==
  \A k \in 1..Len(Split(str, Space)) : Split(str, Space)[k] # <<>>

\* C22: for a text of non-empty words separated by single spaces, the lines
\* wrapText returns joined with single spaces are the text, every line is
\* a run of whole words, and where a line ends before a word, the line with
\* that word appended is wider than the max width.
C22_GreedyWholeWords ==
  wrapPc = "done" /\ SingleSpaced(text) =>
    /\ JoinSpace(lines) = text
    /\ \A i \in 1..Len(lines) : SingleSpaced(lines[i])
    /\ \A i \in 1..(Len(lines) - 1) :
         MeasureText(advance, lines[i] \o <<Space>> \o Split(lines[i + 1], Space)[1])
           > maxWidth

\* A text of three words came back as a line of two words and a line of one
C22_Witness ==
  /\ wrapPc = "done"
  /\ SingleSpaced(text)
  /\ Len(Split(text, Space)) = 3
  /\ Len(lines) = 2
  /\ Len(Split(lines[1], Space)) = 2

\* C23: the handler of a slide's image puts generated art into the slot at
\* most once, however many error events reach that image.
C23_SubstitutedAtMostOnce ==
  \A k \in 1..Len(deck.slides) : deck.slides[k].substitutions <= 1

\* The image of a slide has had a second error event after its handler
\* had put the art in its place
C23_Witness ==
  /\ deck.pc = "shown"
  /\ \E k \in 1..Len(deck.slides) :
       /\ deck.slides[k].errors >= 2
       /\ deck.slides[k].substitutions = 1

\* The deck held by an optional array of cards, empty when there is none
DeckOf(cards) == IF cards = None THEN <<>> ELSE cards[1]

\* C24: loadCards resolves with a deck that is not empty, whatever the fetch
\* and local storage do, and with the demo deck only when neither the
\* response nor the item stored when it was called held a deck with cards.
C24_NonEmptyDeckDemoLast ==
  load.pc = "resolved" =>
    /\ load.result # None
    /\ load.result[1] # <<>>
    /\ load.result[1] = DemoCards =>
         DeckOf(load.network) = <<>> /\ DeckOf(load.storedAtCall) = <<>>

\* The number of consecutive days ending at day on each of which a call
\* was made
RECURSIVE DaysRunning(_)
DaysRunning(day) == IF day \in visits THEN 1 + DaysRunning(day - 1) ELSE 0

\* The day of the latest call
LatestVisit == CHOOSE d \in visits : \A e \in visits : e <= d

\* C27: for every card painted, the bottom edge of the card container,
\* cardTop + cardHeight, lies above the footer line at y = H - 120 = 1800
\* and inside the canvas, whatever the number of title lines and the body.
C27_CardAboveFooter ==
  imgPc = "done" =>
    /\ CardTop + cardHeight < CanvasH - 120
    /\ CardTop + cardHeight <= CanvasH

\* C28: after any calls of updateStreak the stored streak is at least 1 and
\* is the number of consecutive days, ending at the day of the latest
\* call, with a call on each, and lastVisit is that day; so a second call
\* on a day changes nothing and a gap of more than a day gives 1.
C28_StreakIsDaysRunning ==
  streakCall.pc = "returned" =>
    /\ storage.lastVisit = Some(LatestVisit)
    /\ storage.streak # None
    /\ storage.streak[1] >= 1
    /\ storage.streak[1] = DaysRunning(LatestVisit)
    /\ streakCall.result = storage.streak

\* C25: on every boot, init eventually hides the loading screen, whatever
\* becomes of card loading and rendering, a network request that never
\* yields a response included.
C25_LoadingScreenHidden == (boot.pc # "idle" /\ ~boot.hidden) ~> boot.hidden

\* C26: when the network cannot be reached and local storage holds a deck
\* with cards, loadCards resolves with that deck and the deck is still
\* stored afterwards, with or without a service worker answering.
C26_StoredDeckSurvivesOffline ==
  load.pc = "resolved" /\ load.unreachable /\ DeckOf(load.storedAtCall) # <<>> =>
    /\ load.result = load.storedAtCall
    /\ GetData(storage).cachedCards # None
    /\ GetData(storage).cachedCards[1].cards = load.storedAtCall

\* C20: for any seed, the fill or stroke colour of every shape emitted by
\* every pattern function is one of the five colours of the selected
\* palette: the colour index floor(rand() * 5) is always within 0..4.
C20_ColoursFromPalette ==
  \A i \in LayerEntries :
    \A k \in 1..Len(ShapesOf(i)) :
      ShapesOf(i)[k][ColourAt(drawLog[i].by)] \in {palette[j] : j \in 1..Len(palette)}

====
